---- MODULE Spec2Model ----
(***************************************************************************)
(* FitnessTracker: the gamification and activity-analysis logic.           *)
(*                                                                         *)
(*   - Workout page (client): the calorie estimate and XP reward preview   *)
(*     of the workout form.                                                *)
(*   - User model (server): the rank lookup getLevel.                      *)
(*   - Auth routes (server): POST /api/auth/login with its streak          *)
(*     correction, GET /api/auth/me behind the protect middleware.         *)
(*   - POST /api/workouts (server): the route file is not part of the      *)
(*     sources at hand; its streak and XP rules follow spec.md 4.2/4.3.    *)
(*   - Dashboard page (client): weekly aggregation and insights.           *)
(*   - Workout page (client): submitting a workout, with the response      *)
(*     interceptor and localStorage of the browser.                        *)
(*   - protect middleware, POST /api/auth/register step by step, and the   *)
(*     serverless handler with its cached database connection.             *)
(*   - Auth context (client): initAuth, register, login, logout,           *)
(*     updateUser.                                                         *)
(*   - Nutrition page (client): the meal list with its summary, and the    *)
(*     debounced food search.                                              *)
(*                                                                         *)
(* Numbers with a fractional part are kept as scaled integers: intensity   *)
(* factors and per-rep rates in tenths.  Math.round(n/d) is computed       *)
(* exactly as floor(n/d + 1/2).  On every input enumerated below the       *)
(* IEEE-754 double evaluation of the JavaScript expression gives the same  *)
(* integer as the exact computation.                                       *)
(*                                                                         *)
(* Time is counted in hours since an epoch that falls on a local midnight; *)
(* a local calendar day has 24 hours (a server time zone without           *)
(* daylight-saving transitions, such as UTC).                              *)
(***************************************************************************)
EXTENDS Integers, Sequences, FiniteSets, TLC

\* ------------------------------------------------------------------ bounds
\* The duration slider moves in steps of 5 minutes; steps modelled.
MaxDurationSteps == 12
\* The reps slider moves in steps of 5 reps; steps modelled.
MaxRepSteps == 5
\* XP values sampled for the rank lookup: k * 500 + {-1, 0, 1}.
MaxXpStep == 101
\* Clock ticks (of TickHours each) a behaviour may take.
MaxTicks == 4
\* Workout records a behaviour may create.
MaxWorkouts == 2
\* Registration requests that may be under way together.
MaxRegistrations == 2
\* Invocations of the serverless handler in one process.
MaxInvocations == 4
\* Meals a behaviour may log from the Nutrition page.
MaxMeals == 2
\* Food searches a behaviour may send.
MaxSearches == 2
\* Entries of the weekly meals list of a stats response.
MaxMealEntries == 2
\* Entries of the weekly workouts list of a stats response.
MaxWorkoutEntries == 2

\* ------------------------------------------------------- program constants
SliderStep == 5
DefaultDuration == 30
DefaultReps == 20
DefaultSets == 3
DefaultWeight == 70
ReferenceWeight == 70
\* caloriesPerRep fallback 0.3, in tenths
DefaultCaloriesPerRep10 == 3
MinXpReward == 5
XpDivisor == 2
HoursPerDay == 24

\* ------------------------------------------------------------ input domains
\* The clock advances by half a day.
TickHours == HoursPerDay \div 2

Intensities == {"low", "moderate", "high"}

DurationQuick == {15, 30, 45, 60}
DurationValues == {SliderStep * k : k \in 1..MaxDurationSteps} \cup DurationQuick

RepsQuick == {10, 15, 20, 25, 50}
RepsValues == {SliderStep * k : k \in 1..MaxRepSteps} \cup RepsQuick

SetsValues == 1..5

\* A catalog entry as GET /api/workouts/types delivers it.  A falsy
\* caloriesPerRep (absent or 0) is the value 0.
NoRate == 0
NoType == [type |-> "none", inputType |-> "none",
           caloriesPer30Min |-> 0, caloriesPerRep10 |-> NoRate]
WorkoutTypes ==
    { [type |-> "running", inputType |-> "time",
       caloriesPer30Min |-> 300, caloriesPerRep10 |-> NoRate],
      [type |-> "walking", inputType |-> "time",
       caloriesPer30Min |-> 75, caloriesPerRep10 |-> NoRate],
      [type |-> "pushups", inputType |-> "count",
       caloriesPer30Min |-> 0, caloriesPerRep10 |-> 3],
      [type |-> "squats", inputType |-> "count",
       caloriesPer30Min |-> 0, caloriesPerRep10 |-> 5],
      [type |-> "other", inputType |-> "count",
       caloriesPer30Min |-> 0, caloriesPerRep10 |-> NoRate] }

\* The user object of the auth context; a falsy weight is the value 0.
\* an absent dailyBurnGoal and the streak of an absent user are the value 0.
NoUser == [id |-> "none", weight |-> 0, xp |-> 0, streak |-> 0, dailyBurnGoal |-> 0]
Weights == {56, 70, 105}


\* ------------------------------------------------------------------- state
VARIABLES
    \* Workout page (component state and what the form displays)
    selectedType, showForm, duration, reps, sets, intensity,
    estimate, xpReward,
    \* auth context of the client
    authUser,
    \* server: users collection, workouts collection, clock, last response
    users, workouts, now, res,
    \* Dashboard page: fetched stats, loading flag and what a render derives
    stats, loading, weeklyChartData, totals, insights,
    \* Workout page: a submission under way, the notification shown and the
    \* recent workouts list
    submitting, notification, recentWorkouts,
    \* network: POST /api/workouts requests not yet handled, their number so
    \* far, and responses not yet delivered
    inflight, issued, responses,
    \* browser: localStorage and window.location.pathname
    localStorage, location,
    \* protect middleware, one request: the Authorization header, where the
    \* middleware stands, the decoded id, req.user, the responses it has
    \* sent and the calls of next()
    reqHeader, protectPc, decodedId, reqUser, resSent, nextCalls,
    \* POST /api/auth/register, concurrent requests: where each handler
    \* stands and what it answered, and the documents of the User collection
    regReqs, userCollection,
    \* serverless handler, one process: the connection flag, where each
    \* invocation stands, the calls of mongoose.connect and those that
    \* opened a connection
    isConnected, invocations, connectCalls, opened,
    \* auth context: loading and error state, and the API call under way
    \* (answered by the server, passing the response interceptor, resumed
    \* by its caller)
    authLoading, authError, call,
    \* Nutrition page: component state, the calls of mealAPI under way, the
    \* numbers of meals and searches sent so far, the meals collection of
    \* the server, and whether mealAPI has the search and getCommon bindings
    meals, summary, mealsLoading, mealNotification, commonFoods,
    showAddModal, searchQuery, debouncedSearch, searchResults, searching,
    selectedFood, quantity, unit, mealSubmitting,
    mealCalls, mealIssued, searchIssued, mealDb, mealAPIComplete

formVars == <<selectedType, showForm, duration, reps, sets, intensity,
              estimate, xpReward>>
serverVars == <<users, workouts, now, res>>
dashVars == <<stats, loading, weeklyChartData, totals, insights>>
submitVars == <<submitting, notification, recentWorkouts, inflight, issued, responses>>
browserVars == <<localStorage, location>>
protectVars == <<reqHeader, protectPc, decodedId, reqUser, resSent, nextCalls>>
sessionVars == <<authLoading, authError, call>>
nutritionVars == <<meals, summary, mealsLoading, mealNotification, commonFoods,
                   showAddModal, searchQuery, debouncedSearch, searchResults,
                   searching, selectedFood, quantity, unit, mealSubmitting,
                   mealCalls, mealIssued, searchIssued, mealDb, mealAPIComplete>>
beyondSession == <<nutritionVars>>
dbVars == <<isConnected, invocations, connectCalls, opened>>
beyondDb == <<sessionVars, beyondSession>>
regVars == <<regReqs, userCollection>>
beyondReg == <<dbVars, beyondDb>>
beyondProtect == <<regVars, beyondReg>>
beyondSubmit == <<protectVars, beyondProtect>>
moreVars == <<submitVars, browserVars, beyondSubmit>>
vars == <<selectedType, showForm, duration, reps, sets, intensity,
          estimate, xpReward, authUser, users, workouts, now, res,
          stats, loading, weeklyChartData, totals, insights,
          submitting, notification, recentWorkouts, inflight, issued, responses,
          localStorage, location,
          reqHeader, protectPc, decodedId, reqUser, resSent, nextCalls,
          regReqs, userCollection,
          isConnected, invocations, connectCalls, opened,
          authLoading, authError, call,
          meals, summary, mealsLoading, mealNotification, commonFoods,
          showAddModal, searchQuery, debouncedSearch, searchResults, searching,
          selectedFood, quantity, unit, mealSubmitting,
          mealCalls, mealIssued, searchIssued, mealDb, mealAPIComplete>>

\* ------------------------------------------------------- arithmetic helpers
Max(a, b) == IF a >= b THEN a ELSE b

\* Math.round(n / d) for n >= 0, d > 0: the nearest integer, ties upwards.
MathRound(n, d) == (2 * n + d) \div (2 * d)

\* ------------------------------------------------- Workout page: estimator
\* An intensity factor with the low and high factors exchanged.
intensityModSwapped10(int) ==
    IF int = "high" THEN 8 ELSE IF int = "low" THEN 12 ELSE 10

\* const intensityMod = intensity === 'high' ? 1.2 : intensity === 'low' ? 0.8 : 1
\* (in tenths)
intensityMod10(int) ==
    IF int = "high" THEN 12 ELSE IF int = "low" THEN 8 ELSE 10

\* const userWeight = user?.weight || 70
userWeight(usr) == IF usr.weight # 0 THEN usr.weight ELSE DefaultWeight

\* A per-rep rate that ignores the catalog entry.
caloriesPerRepFixed10(st) == DefaultCaloriesPerRep10

\* A per-rep rate without the fallback for a falsy catalog value.
caloriesPerRepNoFallback10(st) == st.caloriesPerRep10

\* const caloriesPerRep = selectedType.caloriesPerRep || 0.3   (in tenths)
caloriesPerRep10(st) ==
    IF st.caloriesPerRep10 # NoRate THEN st.caloriesPerRep10
    ELSE DefaultCaloriesPerRep10

\* An estimator that scales by the user's weight in both input modes.
calculateEstimatedCaloriesWeighted(st, dur, r, s, int, usr) ==
    IF st = NoType
    THEN [error |-> "None", calories |-> 0]
    ELSE IF st.inputType = "time"
    THEN [error |-> "None",
          calories |-> MathRound(st.caloriesPer30Min * dur * intensityMod10(int)
                                   * userWeight(usr),
                                 30 * 10 * ReferenceWeight)]
    ELSE [error |-> "None",
          calories |-> MathRound(caloriesPerRep10(st) * (r * s)
                                   * intensityMod10(int) * userWeight(usr),
                                 10 * 10 * ReferenceWeight)]

\* The outcome of a call of calculateEstimatedCalories() in the current
\* render: what it throws (error; the function has no throw statement) and
\* the number it returns (calories).
calculateEstimatedCalories(st, dur, r, s, int, usr) ==
    IF st = NoType
    THEN [error |-> "None", calories |-> 0]
    ELSE IF st.inputType = "time"
    THEN [error |-> "None",
          calories |-> MathRound(st.caloriesPer30Min * dur * intensityMod10(int),
                                 30 * 10)]
    ELSE LET totalReps == r * s
         IN  [error |-> "None",
              calories |-> MathRound(caloriesPerRep10(st) * totalReps
                                       * intensityMod10(int) * userWeight(usr),
                                     10 * 10 * ReferenceWeight)]

\* A reward that truncates the half instead of rounding it.
xpRewardPreviewFloor(kcal) == Max(MinXpReward, kcal \div XpDivisor)

\* Math.max(5, Math.round(calculateEstimatedCalories() / 2))
xpRewardPreview(kcal) == Max(MinXpReward, MathRound(kcal, XpDivisor))

\* Every state change re-renders the component: the displayed estimate and
\* XP reward are recomputed from the new state.
Render(st, dur, r, s, int) ==
    /\ estimate' = calculateEstimatedCalories(st, dur, r, s, int, authUser)
    /\ xpReward' = xpRewardPreview(
                     calculateEstimatedCalories(st, dur, r, s, int, authUser).calories)

InitForm ==
    /\ selectedType = NoType
    /\ showForm = FALSE
    /\ duration = DefaultDuration
    /\ reps = DefaultReps
    /\ sets = DefaultSets
    /\ intensity = "moderate"
    /\ estimate = calculateEstimatedCalories(NoType, DefaultDuration, DefaultReps,
                                             DefaultSets, "moderate", NoUser)
    /\ xpReward = xpRewardPreview(0)

handleSelectWorkout(type) ==
    /\ selectedType' = type
    /\ showForm' = TRUE
    /\ IF type.inputType = "time"
       THEN /\ duration' = DefaultDuration
            /\ UNCHANGED <<reps, sets>>
       ELSE /\ reps' = DefaultReps
            /\ sets' = DefaultSets
            /\ UNCHANGED duration
    /\ intensity' = "moderate"
    /\ Render(selectedType', duration', reps', sets', intensity')
    /\ UNCHANGED <<authUser, serverVars, dashVars, moreVars>>

\* The form and its inputs are rendered only when showForm && selectedType.
FormShown == showForm /\ selectedType # NoType

setDuration(d) ==
    /\ FormShown /\ selectedType.inputType = "time"
    /\ duration' = d
    /\ Render(selectedType, d, reps, sets, intensity)
    /\ UNCHANGED <<selectedType, showForm, reps, sets, intensity,
                   authUser, serverVars, dashVars, moreVars>>

setReps(r) ==
    /\ FormShown /\ selectedType.inputType # "time"
    /\ reps' = r
    /\ Render(selectedType, duration, r, sets, intensity)
    /\ UNCHANGED <<selectedType, showForm, duration, sets, intensity,
                   authUser, serverVars, dashVars, moreVars>>

setSets(s) ==
    /\ FormShown /\ selectedType.inputType # "time"
    /\ sets' = s
    /\ Render(selectedType, duration, reps, s, intensity)
    /\ UNCHANGED <<selectedType, showForm, duration, reps, intensity,
                   authUser, serverVars, dashVars, moreVars>>

setIntensity(level) ==
    /\ FormShown
    /\ intensity' = level
    /\ Render(selectedType, duration, reps, sets, level)
    /\ UNCHANGED <<selectedType, showForm, duration, reps, sets,
                   authUser, serverVars, dashVars, moreVars>>

\* Cancel button: setShowForm(false); setSelectedType(null)
cancelForm ==
    /\ FormShown
    /\ showForm' = FALSE
    /\ selectedType' = NoType
    /\ Render(NoType, duration, reps, sets, intensity)
    /\ UNCHANGED <<duration, reps, sets, intensity, authUser, serverVars, dashVars, moreVars>>

InitClient ==
    /\ InitForm
    /\ authUser \in {NoUser} \cup
                    {[id |-> "u1", weight |-> w, xp |-> 0, streak |-> 0,
                      dailyBurnGoal |-> 0] : w \in Weights}

\* ------------------------------------------------------ User model: ranks
\* const levels = [...] in UserSchema.methods.getLevel
levels ==
    << [rank |-> "E", minXp |-> 0],
       [rank |-> "D", minXp |-> 1000],
       [rank |-> "C", minXp |-> 2500],
       [rank |-> "B", minXp |-> 5000],
       [rank |-> "A", minXp |-> 10000],
       [rank |-> "S", minXp |-> 20000],
       [rank |-> "NATIONAL", minXp |-> 50000] >>

\* The "Gamification Ranks" table of the README, with the rank labels
\* written as the code writes them.
ReadmeRanks ==
    << [rank |-> "E", minXp |-> 0],
       [rank |-> "D", minXp |-> 500],
       [rank |-> "C", minXp |-> 1500],
       [rank |-> "B", minXp |-> 4000],
       [rank |-> "A", minXp |-> 10000],
       [rank |-> "S", minXp |-> 25000],
       [rank |-> "NATIONAL", minXp |-> 50000] >>

\* [...table].reverse()
Reverse(table) == [i \in 1..Len(table) |-> table[Len(table) + 1 - i]]

\* A lookup that takes a threshold only when the XP exceeds it.
FindMinXpBelow(table, xp) ==
    LET hits == {i \in 1..Len(table) : xp > table[i].minXp}
    IN  IF hits = {} THEN << >>
        ELSE << table[CHOOSE i \in hits : \A j \in hits : i <= j] >>

\* Array.prototype.find: the first element satisfying xp >= l.minXp,
\* or undefined (here: the empty sequence, against a one-element result).
FindMinXpAtMost(table, xp) ==
    LET hits == {i \in 1..Len(table) : xp >= table[i].minXp}
    IN  IF hits = {} THEN << >>
        ELSE << table[CHOOSE i \in hits : \A j \in hits : i <= j] >>

\* return [...levels].reverse().find(l => this.xp >= l.minXp) || levels[0]
lookupLevel(table, xp) ==
    LET found == FindMinXpAtMost(Reverse(table), xp)
    IN  IF found # << >> THEN found[1] ELSE table[1]

getLevel(xp) == lookupLevel(levels, xp)

\* ------------------------------------------------------------ server state
UserIds == {"u1", "u2"}
NoDate == -1
NoLevel == [rank |-> "none", minXp |-> -1]
NoRes == [route |-> "none", status |-> 0, user |-> "none",
          xp |-> 0, streak |-> 0, level |-> NoLevel]

DefaultBurnGoal == 500

\* A new document of the User schema: xp 0, streak 0, lastWorkoutDate null,
\* dailyBurnGoal 500.
NewUser == [xp |-> 0, streak |-> 0, lastWorkoutDate |-> NoDate,
            dailyBurnGoal |-> DefaultBurnGoal]

\* What the Authorization header of a request carries.
Tokens == {[kind |-> "none", id |-> "none"], [kind |-> "invalid", id |-> "none"]}
            \cup {[kind |-> "valid", id |-> u] : u \in UserIds}

InitServer ==
    /\ users = [u \in {} |-> NewUser]
    /\ workouts = << >>
    /\ now = 0
    /\ res = NoRes

\* date.setHours(0, 0, 0, 0): the local midnight that starts the date's day.
setHoursMidnight(t) == t - (t % HoursPerDay)

\* A day difference taken between the raw timestamps.
diffDaysRaw(today, lastWorkout) == (today - lastWorkout) \div HoursPerDay

\* Math.floor((today - lastWorkout) / (1000 * 60 * 60 * 24)), both operands
\* set to their local midnight.
diffDays(today, lastWorkout) ==
    (setHoursMidnight(today) - setHoursMidnight(lastWorkout)) \div HoursPerDay

\* A correction that takes one day off the streak instead of clearing it.
loginStreakDecrement(user, today) ==
    IF user.lastWorkoutDate # NoDate /\ diffDays(today, user.lastWorkoutDate) > 1
    THEN user.streak - 1
    ELSE user.streak

\* The streak a successful login leaves in the user document.
loginStreak(user, today) ==
    IF user.lastWorkoutDate # NoDate /\ diffDays(today, user.lastWorkoutDate) > 1
    THEN 0
    ELSE user.streak

Reply(route, status, u, xp, streak, level) ==
    [route |-> route, status |-> status, user |-> u,
     xp |-> xp, streak |-> streak, level |-> level]

\* A registration that creates the document without looking for an
\* existing one.
RegisterOverwrite(u) ==
    /\ users' = [x \in DOMAIN users \cup {u} |->
                    IF x = u THEN NewUser ELSE users[x]]
    /\ res' = Reply("register", 201, u, NewUser.xp, NewUser.streak, NoLevel)
    /\ UNCHANGED <<workouts, now, formVars, authUser, dashVars, moreVars>>

\* POST /api/auth/register: what the route does to the users and answers
registerRoute(u) ==
    IF u \in DOMAIN users
    THEN /\ res' = Reply("register", 400, "none", 0, 0, NoLevel)
         /\ UNCHANGED users
    ELSE /\ users' = [x \in DOMAIN users \cup {u} |->
                        IF x = u THEN NewUser ELSE users[x]]
         /\ res' = Reply("register", 201, u, NewUser.xp, NewUser.streak, NoLevel)

\* POST /api/auth/register
Register(u) ==
    /\ registerRoute(u)
    /\ UNCHANGED <<workouts, now, formVars, authUser, dashVars, moreVars>>

\* A login that also records itself as the user's last activity.
LoginTouchesDate(u, pwOk) ==
    /\ IF u \notin DOMAIN users \/ ~pwOk
       THEN /\ res' = Reply("login", 401, "none", 0, 0, NoLevel)
            /\ UNCHANGED users
       ELSE /\ users' = [users EXCEPT ![u].streak = loginStreak(users[u], now),
                                      ![u].lastWorkoutDate = now]
            /\ res' = Reply("login", 200, u, users[u].xp, users'[u].streak, NoLevel)
    /\ UNCHANGED <<workouts, now, formVars, authUser, dashVars, moreVars>>

\* POST /api/auth/login; u is the account the credentials name, pwOk whether
\* comparePassword accepts the password.
loginRoute(u, pwOk) ==
    IF u \notin DOMAIN users \/ ~pwOk
    THEN /\ res' = Reply("login", 401, "none", 0, 0, NoLevel)
         /\ UNCHANGED users
    ELSE /\ users' = [users EXCEPT ![u].streak = loginStreak(users[u], now)]
         /\ res' = Reply("login", 200, u, users[u].xp, users'[u].streak, NoLevel)

\* A login whose response is not followed further.
Login(u, pwOk) ==
    /\ loginRoute(u, pwOk)
    /\ UNCHANGED <<workouts, now, formVars, authUser, dashVars, moreVars>>

\* The protect middleware: 401, or 0 when it calls next().
protect(tok) ==
    IF tok.kind = "none" THEN 401
    ELSE IF tok.kind = "invalid" THEN 401
    ELSE IF tok.id \notin DOMAIN users THEN 401
    ELSE 0

\* GET /api/auth/me behind protect: what the route answers
getMeRoute(tok) ==
    IF protect(tok) # 0
    THEN res' = Reply("me", protect(tok), "none", 0, 0, NoLevel)
    ELSE res' = Reply("me", 200, tok.id, users[tok.id].xp, users[tok.id].streak,
                      getLevel(users[tok.id].xp))

\* GET /api/auth/me
GetMe(tok) ==
    /\ getMeRoute(tok)
    /\ UNCHANGED <<users, workouts, now, formVars, authUser, dashVars, moreVars>>

\* --------------------------------------------- POST /api/workouts (spec.md)
\* The calendar day of a timestamp (spec.md 4.3: lastActivityDate is a
\* calendar day, not a timestamp).
CalendarDay(t) == t \div HoursPerDay

\* A streak rule that resets to 0 after a gap.
applyStreakResetToZero(user, today) ==
    IF user.lastWorkoutDate = NoDate
    THEN [streak |-> 1, lastWorkoutDate |-> today]
    ELSE IF CalendarDay(today) = CalendarDay(user.lastWorkoutDate)
    THEN [streak |-> user.streak, lastWorkoutDate |-> user.lastWorkoutDate]
    ELSE IF CalendarDay(today) - CalendarDay(user.lastWorkoutDate) = 1
    THEN [streak |-> user.streak + 1, lastWorkoutDate |-> today]
    ELSE [streak |-> 0, lastWorkoutDate |-> today]

\* spec.md 4.3, transition rule on a new qualifying activity at day D.
applyStreak(user, today) ==
    IF user.lastWorkoutDate = NoDate
    THEN [streak |-> 1, lastWorkoutDate |-> today]
    ELSE IF CalendarDay(today) = CalendarDay(user.lastWorkoutDate)
    THEN [streak |-> user.streak, lastWorkoutDate |-> user.lastWorkoutDate]
    ELSE IF CalendarDay(today) - CalendarDay(user.lastWorkoutDate) = 1
    THEN [streak |-> user.streak + 1, lastWorkoutDate |-> today]
    ELSE [streak |-> 1, lastWorkoutDate |-> today]

\* spec.md 4.2: max(minimumXpFloor, round(caloriesBurned / xpDivisor))
computeXpReward(calories) == Max(MinXpReward, MathRound(calories, XpDivisor))

\* Calories the server may estimate for a submitted workout.
WorkoutCalories == {0, 540}

\* POST /api/workouts behind protect: the record is created, its XP is added
\* to the user and the streak rule is applied, as one unit.
postWorkout(tok, calories) ==
    /\ Len(workouts) < MaxWorkouts
    /\ IF protect(tok) # 0
       THEN /\ res' = Reply("workouts", protect(tok), "none", 0, 0, NoLevel)
            /\ UNCHANGED <<users, workouts>>
       ELSE LET u == tok.id
                s == applyStreak(users[u], now)
            IN  /\ workouts' = Append(workouts,
                                  [user |-> u, calories |-> calories,
                                   xpEarned |-> computeXpReward(calories),
                                   date |-> now])
                /\ users' = [users EXCEPT
                               ![u].xp = @ + computeXpReward(calories),
                               ![u].streak = s.streak,
                               ![u].lastWorkoutDate = s.lastWorkoutDate]
                /\ res' = Reply("workouts", 201, u, users'[u].xp, users'[u].streak,
                                NoLevel)

\* A workout logged by a client whose response is not followed further.
LogWorkout(tok, calories) ==
    /\ postWorkout(tok, calories)
    /\ UNCHANGED <<now, formVars, authUser, dashVars, moreVars>>

\* ----------------------------------------- PUT /api/users/profile (spec.md)
\* Daily burn goals a profile update may set.
BurnGoals == {300, DefaultBurnGoal}

\* spec.md 3: a profile update mutates body metrics and goals of the user.
UpdateProfile(tok, goal) ==
    /\ IF protect(tok) # 0
       THEN /\ res' = Reply("profile", protect(tok), "none", 0, 0, NoLevel)
            /\ UNCHANGED users
       ELSE /\ users' = [users EXCEPT ![tok.id].dailyBurnGoal = goal]
            /\ res' = Reply("profile", 200, tok.id, users[tok.id].xp,
                            users[tok.id].streak, NoLevel)
    /\ UNCHANGED <<workouts, now, formVars, authUser, dashVars, moreVars>>

\* Time passes.
Tick ==
    /\ now < MaxTicks * TickHours
    /\ now' = now + TickHours
    /\ UNCHANGED <<users, workouts, res, formVars, authUser, dashVars, moreVars>>

\* ----------------------------------------------------------- Dashboard page
\* The stats object of GET /api/users/stats as the page holds it; null
\* before the response and after a failed request.
NoStats == [null |-> TRUE, weeklyMeals |-> << >>, weeklyWorkouts |-> << >>,
            caloriesBurned |-> 0, caloriesConsumed |-> 0]

\* const weekDays = ['Mon', 'Tue', 'Wed', 'Thu', 'Fri', 'Sat', 'Sun']
weekDays == <<"Mon", "Tue", "Wed", "Thu", "Fri", "Sat", "Sun">>

\* new Date(date).getDay(): 0 = Sunday .. 6 = Saturday; the epoch day of the
\* clock is a Monday.
getDay(t) == ((t \div HoursPerDay) + 1) % 7

\* const adjustedIndex = (index + 1) % 7   (index 0 = Mon .. 6 = Sun)
adjustedIndex(index) == (index + 1) % 7

\* A lookup that takes the first entry whatever its weekday.
findFirstEntry(list, index) ==
    IF Len(list) = 0 THEN << >> ELSE << list[1] >>

\* list.find(e => new Date(e.date).getDay() === adjustedIndex): the first
\* such entry as a one-element sequence, the empty sequence for undefined.
findByDay(list, index) ==
    LET hits == {i \in 1..Len(list) : getDay(list[i].date) = adjustedIndex(index)}
    IN  IF hits = {} THEN << >>
        ELSE << list[CHOOSE i \in hits : \A j \in hits : i <= j] >>

\* stats?.weekly?.meals and stats?.weekly?.workouts; find is not called on
\* undefined.
weeklyMealsOf(st) == IF st.null THEN << >> ELSE st.weeklyMeals
weeklyWorkoutsOf(st) == IF st.null THEN << >> ELSE st.weeklyWorkouts

\* A bucket whose net is burned - intake.
bucketNetReversed(st, index) ==
    LET mealData == findByDay(weeklyMealsOf(st), index)
        workoutData == findByDay(weeklyWorkoutsOf(st), index)
        intake == IF mealData # << >> THEN mealData[1].calories ELSE 0
        burned == IF workoutData # << >> THEN workoutData[1].totalCalories ELSE 0
    IN  [day |-> weekDays[index + 1], intake |-> intake, burned |-> burned,
         net |-> burned - intake,
         workouts |-> IF workoutData # << >> THEN workoutData[1].count ELSE 0,
         duration |-> IF workoutData # << >> THEN workoutData[1].totalDuration ELSE 0]

\* The callback of weekDays.map((day, index) => ...); x?.field || 0 is 0 for
\* an undefined x and for a field that is 0.
bucket(st, index) ==
    LET mealData == findByDay(weeklyMealsOf(st), index)
        workoutData == findByDay(weeklyWorkoutsOf(st), index)
        intake == IF mealData # << >> THEN mealData[1].calories ELSE 0
        burned == IF workoutData # << >> THEN workoutData[1].totalCalories ELSE 0
        netCalories == intake - burned
    IN  [day |-> weekDays[index + 1], intake |-> intake, burned |-> burned,
         net |-> netCalories,
         workouts |-> IF workoutData # << >> THEN workoutData[1].count ELSE 0,
         duration |-> IF workoutData # << >> THEN workoutData[1].totalDuration ELSE 0]

buildWeeklyChartData(st) == [i \in 1..Len(weekDays) |-> bucket(st, i - 1)]

\* seq.reduce((sum, d) => sum + d, 0)
RECURSIVE reduceSum(_)
reduceSum(seq) ==
    IF Len(seq) = 0 THEN 0
    ELSE reduceSum(SubSeq(seq, 1, Len(seq) - 1)) + seq[Len(seq)]

\* totalIntake .. netWeekly of the render
analysisMetrics(chart) ==
    LET totalIntake == reduceSum([i \in 1..Len(chart) |-> chart[i].intake])
        totalBurned == reduceSum([i \in 1..Len(chart) |-> chart[i].burned])
    IN  [totalIntake |-> totalIntake,
         totalBurned |-> totalBurned,
         totalWorkouts |-> reduceSum([i \in 1..Len(chart) |-> chart[i].workouts]),
         totalDuration |-> reduceSum([i \in 1..Len(chart) |-> chart[i].duration]),
         avgDailyBurn |-> MathRound(totalBurned, 7),
         avgDailyIntake |-> MathRound(totalIntake, 7),
         netWeekly |-> totalIntake - totalBurned]

NoTotals == [totalIntake |-> 0, totalBurned |-> 0, totalWorkouts |-> 0,
             totalDuration |-> 0, avgDailyBurn |-> 0, avgDailyIntake |-> 0,
             netWeekly |-> 0]

\* An insight: its type, its message template and the number the text shows.
Insight(type, text, n) == [type |-> type, text |-> text, n |-> n]

\* const dailyGoal = user?.dailyBurnGoal || 500
dailyGoalOf(usr) == IF usr.dailyBurnGoal # 0 THEN usr.dailyBurnGoal ELSE DefaultBurnGoal

\* stats?.today?.caloriesBurned || 0, stats?.today?.caloriesConsumed || 0
todayBurnedOf(st) == IF st.null THEN 0 ELSE st.caloriesBurned
todayIntakeOf(st) == IF st.null THEN 0 ELSE st.caloriesConsumed

\* A progress insight that needs more than the goal for success.
progressInsightStrict(todayBurned, dailyGoal) ==
    IF todayBurned > dailyGoal
    THEN << Insight("success", "Goal crushed", todayBurned) >>
    ELSE IF todayBurned > 0
    THEN << Insight("info", "Keep going", dailyGoal - todayBurned) >>
    ELSE << Insight("warning", "No workout today", 0) >>

\* Today's progress insight
progressInsight(todayBurned, dailyGoal) ==
    IF todayBurned >= dailyGoal
    THEN << Insight("success", "Goal crushed", todayBurned) >>
    ELSE IF todayBurned > 0
    THEN LET remaining == dailyGoal - todayBurned
         IN  << Insight("info", "Keep going", remaining) >>
    ELSE << Insight("warning", "No workout today", 0) >>

\* A balance insight that warns from a surplus of 500 on.
balanceInsightInclusive(todayIntake, todayBurned) ==
    IF todayIntake > 0 /\ todayBurned > 0
    THEN LET balance == todayIntake - todayBurned
         IN  IF balance >= 500
             THEN << Insight("warning", "Calorie surplus", balance) >>
             ELSE IF balance < -300
             THEN << Insight("success", "Great deficit", -balance) >>
             ELSE << >>
    ELSE << >>

\* Calorie balance insight
balanceInsight(todayIntake, todayBurned) ==
    IF todayIntake > 0 /\ todayBurned > 0
    THEN LET balance == todayIntake - todayBurned
         IN  IF balance > 500
             THEN << Insight("warning", "Calorie surplus", balance) >>
             ELSE IF balance < -300
             THEN << Insight("success", "Great deficit", -balance) >>
             ELSE << >>
    ELSE << >>

\* A consistency insight that needs more than 5 workouts for success.
consistencyInsightStrict(totalWorkouts) ==
    IF totalWorkouts > 5
    THEN << Insight("success", "Excellent week", totalWorkouts) >>
    ELSE IF totalWorkouts >= 3
    THEN << Insight("info", "Good week", totalWorkouts) >>
    ELSE << >>

\* Weekly consistency insight
consistencyInsight(totalWorkouts) ==
    IF totalWorkouts >= 5
    THEN << Insight("success", "Excellent week", totalWorkouts) >>
    ELSE IF totalWorkouts >= 3
    THEN << Insight("info", "Good week", totalWorkouts) >>
    ELSE << >>

\* A streak insight that needs more than 7 days.
streakInsightStrict(usr) ==
    IF usr.streak > 7
    THEN << Insight("success", "Day streak", usr.streak) >>
    ELSE << >>

\* Streak insight: user?.streak >= 7
streakInsight(usr) ==
    IF usr.streak >= 7
    THEN << Insight("success", "Day streak", usr.streak) >>
    ELSE << >>

\* Insights in which a quiet week gets a message of its own.
getActivityInsightsWithDefault(usr, st, totalWorkouts) ==
    progressInsight(todayBurnedOf(st), dailyGoalOf(usr))
      \o balanceInsight(todayIntakeOf(st), todayBurnedOf(st))
      \o (IF consistencyInsight(totalWorkouts) # << >>
          THEN consistencyInsight(totalWorkouts)
          ELSE << Insight("info", "Quiet week", totalWorkouts) >>)
      \o streakInsight(usr)

\* const getActivityInsights = () => { ... return insights; }
getActivityInsights(usr, st, totalWorkouts) ==
    progressInsight(todayBurnedOf(st), dailyGoalOf(usr))
      \o balanceInsight(todayIntakeOf(st), todayBurnedOf(st))
      \o consistencyInsight(totalWorkouts)
      \o streakInsight(usr)

InitDashboard ==
    /\ stats = NoStats
    /\ loading = TRUE
    /\ weeklyChartData = << >>
    /\ totals = NoTotals
    /\ insights = << >>

\* The render that follows setLoading(false): the chart data, the analysis
\* metrics and the insights are derived from stats and the user.
RenderDashboard(st) ==
    /\ weeklyChartData' = buildWeeklyChartData(st)
    /\ totals' = analysisMetrics(buildWeeklyChartData(st))
    /\ insights' = getActivityInsights(authUser, st,
                      analysisMetrics(buildWeeklyChartData(st)).totalWorkouts)

\* fetchStats, the request answered: setStats(response.data.stats);
\* setLoading(false)
fetchStats(st) ==
    /\ loading
    /\ stats' = st
    /\ loading' = FALSE
    /\ RenderDashboard(st)
    /\ UNCHANGED <<formVars, authUser, serverVars, moreVars>>

\* fetchStats, the request failed: stats stays null; setLoading(false)
fetchStatsFailed ==
    /\ loading
    /\ loading' = FALSE
    /\ RenderDashboard(stats)
    /\ UNCHANGED <<stats, formVars, authUser, serverVars, moreVars>>

\* ------------------------------------------- Workout page: submitting a quest
NoToken == [kind |-> "none", id |-> "none"]

InitSubmit ==
    /\ submitting = FALSE
    /\ notification = "none"
    /\ recentWorkouts = << >>
    /\ inflight = {}
    /\ issued = 0
    /\ responses = {}

InitBrowser ==
    /\ localStorage = [token |-> NoToken, user |-> NoUser]
    /\ location = "/login"

\* An interceptor that removes the token and keeps the user.
interceptedStorageKeepsUser(status) ==
    IF status = 401 THEN [localStorage EXCEPT !.token = NoToken] ELSE localStorage

\* The response interceptor: a 401 removes 'token' and 'user' from
\* localStorage and leaves the browser at /login; any other response leaves
\* both alone.
interceptedStorage(status) ==
    IF status = 401 THEN [token |-> NoToken, user |-> NoUser] ELSE localStorage
interceptedLocation(status) ==
    IF status = 401 THEN "/login" ELSE location

\* window.location.href = '/login' loads the application anew: the state
\* of every component is the initial one, and initAuth finds no token.
Redirects(status) == status = 401 /\ location # "/login"

\* handleSubmitWorkout up to its await: the request leaves with the token
\* of localStorage.  The button is part of the form and disabled while a
\* submission is under way.  The request remembers the user object the
\* handler's updateUser closes over.
handleSubmitWorkout ==
    /\ selectedType # NoType
    /\ FormShown /\ ~submitting
    /\ issued < MaxWorkouts
    /\ submitting' = TRUE
    /\ issued' = issued + 1
    /\ inflight' = inflight \cup
          {[id |-> issued + 1, origin |-> "page", token |-> localStorage.token,
            user |-> authUser]}
    /\ UNCHANGED <<notification, recentWorkouts, responses, formVars, authUser,
                   serverVars, dashVars, browserVars, beyondSubmit>>

\* The same handler in a second tab of the browser, which shares
\* localStorage; that tab's user object is the one localStorage holds.
secondTabSubmit ==
    /\ issued < MaxWorkouts
    /\ localStorage.user # NoUser
    /\ \A x \in inflight \cup responses : x.origin # "tab2"
    /\ issued' = issued + 1
    /\ inflight' = inflight \cup
          {[id |-> issued + 1, origin |-> "tab2", token |-> localStorage.token,
            user |-> localStorage.user]}
    /\ UNCHANGED <<submitting, notification, recentWorkouts, responses, formVars,
                   authUser, serverVars, dashVars, browserVars, beyondSubmit>>

\* A failure that strikes after the record was created and before the XP
\* was credited.
serveWorkoutFailsHalfway(r) ==
    /\ r \in inflight
    /\ protect(r.token) = 0
    /\ Len(workouts) < MaxWorkouts
    /\ inflight' = inflight \ {r}
    /\ workouts' = Append(workouts,
                      [user |-> r.token.id, calories |-> 0,
                       xpEarned |-> computeXpReward(0), date |-> now])
    /\ res' = Reply("workouts", 500, "none", 0, 0, NoLevel)
    /\ responses' = responses \cup
          {[id |-> r.id, origin |-> r.origin, user |-> r.user, status |-> 500,
            xp |-> 0, streak |-> 0, xpEarned |-> 0]}
    /\ UNCHANGED <<users, now, submitting, notification, recentWorkouts, issued,
                   formVars, authUser, dashVars, browserVars, beyondSubmit>>

\* spec.md 4.2, 6: a failure of POST /api/workouts leaves neither a record
\* nor XP; the client is answered with an error.
serveWorkoutFails(r) ==
    /\ r \in inflight
    /\ protect(r.token) = 0
    /\ inflight' = inflight \ {r}
    /\ res' = Reply("workouts", 500, "none", 0, 0, NoLevel)
    /\ responses' = responses \cup
          {[id |-> r.id, origin |-> r.origin, user |-> r.user, status |-> 500,
            xp |-> 0, streak |-> 0, xpEarned |-> 0]}
    /\ UNCHANGED <<users, workouts, now, submitting, notification, recentWorkouts,
                   issued, formVars, authUser, dashVars, browserVars, beyondSubmit>>

\* The server handles one of the requests in flight, in any order.
serveWorkout(r, calories) ==
    /\ r \in inflight
    /\ postWorkout(r.token, calories)
    /\ inflight' = inflight \ {r}
    /\ responses' = responses \cup
          {[id |-> r.id, origin |-> r.origin, user |-> r.user,
            status |-> res'.status, xp |-> res'.xp, streak |-> res'.streak,
            xpEarned |-> IF res'.status = 201 THEN computeXpReward(calories) ELSE 0]}
    /\ UNCHANGED <<now, submitting, notification, recentWorkouts, issued,
                   formVars, authUser, dashVars, browserVars, beyondSubmit>>

\* updateUser(newData): { ...user, ...newData } with the user object of the
\* caller's closure.
updatedUser(user, xp, streak) == [user EXCEPT !.xp = xp, !.streak = streak]

\* prev => [workout, ...prev.slice(0, 4)]
pushRecent(prev, workout) ==
    << workout >> \o SubSeq(prev, 1, IF Len(prev) < 4 THEN Len(prev) ELSE 4)

\* handleSubmitWorkout from its await on: a response is delivered to the
\* page, in any order.
handleSubmitWorkoutDone(resp) ==
    /\ resp \in responses /\ resp.origin = "page"
    /\ responses' = responses \ {resp}
    /\ IF resp.status = 201
       THEN /\ authUser' = updatedUser(resp.user, resp.xp, resp.streak)
            /\ localStorage' = [localStorage EXCEPT
                                  !.user = updatedUser(resp.user, resp.xp, resp.streak)]
            /\ recentWorkouts' = pushRecent(recentWorkouts, resp.xpEarned)
            /\ notification' = "success"
            /\ showForm' = FALSE
            /\ selectedType' = NoType
            /\ submitting' = FALSE
            /\ estimate' = calculateEstimatedCalories(NoType, duration, reps, sets,
                                                      intensity, authUser')
            /\ xpReward' = xpRewardPreview(estimate'.calories)
            /\ UNCHANGED <<duration, reps, sets, intensity, location>>
       ELSE IF Redirects(resp.status)
       THEN /\ localStorage' = interceptedStorage(resp.status)
            /\ location' = interceptedLocation(resp.status)
            /\ authUser' = NoUser
            /\ recentWorkouts' = << >>
            /\ notification' = "none"
            /\ submitting' = FALSE
            /\ selectedType' = NoType
            /\ showForm' = FALSE
            /\ duration' = DefaultDuration
            /\ reps' = DefaultReps
            /\ sets' = DefaultSets
            /\ intensity' = "moderate"
            /\ estimate' = calculateEstimatedCalories(NoType, DefaultDuration,
                              DefaultReps, DefaultSets, "moderate", NoUser)
            /\ xpReward' = xpRewardPreview(0)
       ELSE /\ localStorage' = interceptedStorage(resp.status)
            /\ location' = interceptedLocation(resp.status)
            /\ notification' = "error"
            /\ submitting' = FALSE
            /\ UNCHANGED <<authUser, recentWorkouts, formVars>>
    /\ UNCHANGED <<inflight, issued, serverVars, dashVars, beyondSubmit>>

\* A response is delivered to the second tab, whose updateUser writes the
\* shared localStorage.
secondTabDone(resp) ==
    /\ resp \in responses /\ resp.origin = "tab2"
    /\ responses' = responses \ {resp}
    /\ IF resp.status = 201
       THEN localStorage' = [localStorage EXCEPT
                               !.user = updatedUser(resp.user, resp.xp, resp.streak)]
       ELSE localStorage' = interceptedStorage(resp.status)
    /\ UNCHANGED <<submitting, notification, recentWorkouts, inflight, issued,
                   formVars, authUser, serverVars, dashVars, location,
                   beyondSubmit>>

\* setTimeout(() => setNotification(null), 3000)
clearNotification ==
    /\ notification # "none"
    /\ notification' = "none"
    /\ UNCHANGED <<submitting, recentWorkouts, inflight, issued, responses,
                   formVars, authUser, serverVars, dashVars, browserVars, beyondSubmit>>

\* ------------------------------------------------------- protect middleware
\* The first field of an Authorization header, as its characters.
Bearer == <<"B", "e", "a", "r", "e", "r">>
Schemes == {Bearer, Bearer \o <<"s">>, <<"B", "a", "s", "i", "c">>,
            <<"b", "e", "a", "r", "e", "r">>}

\* What the second field of a header may be: a token signed for a user id,
\* a token with a bad signature, an expired token.
JwtTokens == {[kind |-> "valid", id |-> u] : u \in UserIds}
               \cup {[kind |-> "invalid", id |-> "none"],
                     [kind |-> "expired", id |-> "u1"]}

\* req.headers.authorization split at ' '; the empty sequence is an absent
\* header.
NoHeader == << >>
Headers == {NoHeader} \cup {<<s>> : s \in Schemes}
             \cup {<<s, t>> : s \in Schemes, t \in JwtTokens}

\* String.prototype.startsWith
startsWith(str, prefix) ==
    Len(str) >= Len(prefix) /\ SubSeq(str, 1, Len(prefix)) = prefix

\* The token the middleware extracts, as a one-element sequence, or the
\* empty sequence when token stays undefined.
extractToken(header) ==
    IF header # NoHeader /\ startsWith(header[1], Bearer)
    THEN IF Len(header) >= 2 THEN << header[2] >> ELSE << >>
    ELSE << >>

InitProtect ==
    /\ reqHeader = NoHeader
    /\ protectPc = "idle"
    /\ decodedId = "none"
    /\ reqUser = "none"
    /\ resSent = << >>
    /\ nextCalls = 0

\* res.status(401).json({ success: false, message })
Respond401(message) == [status |-> 401, message |-> message]

\* protect from its start to the await of User.findById, or to its return
\* when there is no token or jwt.verify throws.
protectBegin(header) ==
    /\ protectPc = "idle"
    /\ reqHeader' = header
    /\ reqUser' = "none"
    /\ nextCalls' = 0
    /\ IF extractToken(header) = << >>
       THEN /\ resSent' = << Respond401("No token provided") >>
            /\ protectPc' = "done"
            /\ decodedId' = "none"
       ELSE IF extractToken(header)[1].kind = "valid"
       THEN /\ resSent' = << >>
            /\ protectPc' = "findById"
            /\ decodedId' = extractToken(header)[1].id
       ELSE /\ resSent' = << Respond401(IF extractToken(header)[1].kind = "expired"
                                        THEN "Token expired"
                                        ELSE "Token is invalid") >>
            /\ protectPc' = "done"
            /\ decodedId' = "none"
    /\ UNCHANGED <<formVars, authUser, serverVars, dashVars, submitVars, browserVars,
                   beyondProtect>>

\* A middleware that goes on without looking at what findById returned.
protectFindByIdUnchecked(throws) ==
    /\ protectPc = "findById"
    /\ protectPc' = "done"
    /\ reqUser' = IF decodedId \in DOMAIN users THEN decodedId ELSE "none"
    /\ nextCalls' = nextCalls + 1
    /\ UNCHANGED resSent
    /\ UNCHANGED <<reqHeader, decodedId, formVars, authUser, serverVars, dashVars,
                   submitVars, browserVars, beyondProtect>>

\* protect from the await of User.findById to its end; throws: the query
\* rejects.
protectFindById(throws) ==
    /\ protectPc = "findById"
    /\ protectPc' = "done"
    /\ IF throws
       THEN /\ resSent' = Append(resSent, Respond401("Token is invalid"))
            /\ UNCHANGED <<reqUser, nextCalls>>
       ELSE IF decodedId \notin DOMAIN users
       THEN /\ reqUser' = "none"
            /\ resSent' = Append(resSent, Respond401("User not found"))
            /\ UNCHANGED nextCalls
       ELSE /\ reqUser' = decodedId
            /\ nextCalls' = nextCalls + 1
            /\ UNCHANGED resSent
    /\ UNCHANGED <<reqHeader, decodedId, formVars, authUser, serverVars, dashVars,
                   submitVars, browserVars, beyondProtect>>

\* The request is over; the middleware takes the next one.
protectEnd ==
    /\ protectPc = "done"
    /\ reqHeader' = NoHeader
    /\ protectPc' = "idle"
    /\ decodedId' = "none"
    /\ reqUser' = "none"
    /\ resSent' = << >>
    /\ nextCalls' = 0
    /\ UNCHANGED <<formVars, authUser, serverVars, dashVars, submitVars, browserVars,
                   beyondProtect>>

\* ------------------------------------------ POST /api/auth/register, steps
Usernames == {"ann", "bob"}
Emails == {"ann@x.io", "bob@x.io"}

NoReg == [pc |-> "none", username |-> "none", email |-> "none",
          status |-> 0, token |-> FALSE]

InitReg ==
    /\ regReqs = [i \in 1..MaxRegistrations |-> NoReg]
    /\ userCollection = << >>

\* User.findOne({ $or: [{ email }, { username }] }) finds a document.
findOneByEmailOrUsername(email, username) ==
    \E k \in 1..Len(userCollection) :
        userCollection[k].email = email \/ userCollection[k].username = username

\* The unique indexes of username and email reject the insert.
duplicateKey(email, username) ==
    \E k \in 1..Len(userCollection) :
        userCollection[k].email = email \/ userCollection[k].username = username

\* The handler up to its first await: validation, then the findOne query is
\* sent; valid is the outcome of validationResult.
registerArrive(i, username, email, valid) ==
    /\ regReqs[i].pc = "none"
    /\ regReqs' = [regReqs EXCEPT ![i] =
          IF valid
          THEN [pc |-> "findOne", username |-> username, email |-> email,
                status |-> 0, token |-> FALSE]
          ELSE [pc |-> "done", username |-> username, email |-> email,
                status |-> 400, token |-> FALSE]]
    /\ UNCHANGED <<userCollection, formVars, authUser, serverVars, dashVars,
                   submitVars, browserVars, protectVars, beyondReg>>

\* findOne answers: 400 when a user exists, otherwise on to User.create.
registerFindOne(i) ==
    /\ regReqs[i].pc = "findOne"
    /\ regReqs' = [regReqs EXCEPT ![i] =
          IF findOneByEmailOrUsername(regReqs[i].email, regReqs[i].username)
          THEN [@ EXCEPT !.pc = "done", !.status = 400]
          ELSE [@ EXCEPT !.pc = "create"]]
    /\ UNCHANGED <<userCollection, formVars, authUser, serverVars, dashVars,
                   submitVars, browserVars, protectVars, beyondReg>>

\* A create on a collection whose unique indexes were never built.
registerCreateNoIndex(i) ==
    /\ regReqs[i].pc = "create"
    /\ userCollection' = Append(userCollection,
                            [username |-> regReqs[i].username,
                             email |-> regReqs[i].email, by |-> i])
    /\ regReqs' = [regReqs EXCEPT ![i] =
                      [@ EXCEPT !.pc = "done", !.status = 201, !.token = TRUE]]
    /\ UNCHANGED <<formVars, authUser, serverVars, dashVars,
                   submitVars, browserVars, protectVars, beyondReg>>

\* User.create answers: the document is stored and 201 carries a token, or
\* the insert is rejected and the catch block answers 500.
registerCreate(i) ==
    /\ regReqs[i].pc = "create"
    /\ IF duplicateKey(regReqs[i].email, regReqs[i].username)
       THEN /\ regReqs' = [regReqs EXCEPT ![i] =
                             [@ EXCEPT !.pc = "done", !.status = 500]]
            /\ UNCHANGED userCollection
       ELSE /\ userCollection' = Append(userCollection,
                                   [username |-> regReqs[i].username,
                                    email |-> regReqs[i].email, by |-> i])
            /\ regReqs' = [regReqs EXCEPT ![i] =
                             [@ EXCEPT !.pc = "done", !.status = 201, !.token = TRUE]]
    /\ UNCHANGED <<formVars, authUser, serverVars, dashVars,
                   submitVars, browserVars, protectVars, beyondReg>>

\* ------------------------------------------------------ serverless handler
\* let isConnected = false
InitDb ==
    /\ isConnected = FALSE
    /\ invocations = [i \in 1..MaxInvocations |-> "none"]
    /\ connectCalls = 0
    /\ opened = 0

\* The handler is invoked: connectDB returns at once when isConnected,
\* and the request goes to the Express app; otherwise mongoose.connect is
\* called and awaited.
handlerArrive(i) ==
    /\ invocations[i] = "none"
    /\ IF isConnected
       THEN /\ invocations' = [invocations EXCEPT ![i] = "app"]
            /\ UNCHANGED connectCalls
       ELSE /\ invocations' = [invocations EXCEPT ![i] = "connecting"]
            /\ connectCalls' = connectCalls + 1
    /\ UNCHANGED <<isConnected, opened, formVars, authUser, serverVars, dashVars,
                   submitVars, browserVars, protectVars, regVars, beyondDb>>

\* mongoose.connect resolves: isConnected = readyState === 1, and the
\* request goes to the Express app.
connectResolves(i) ==
    /\ invocations[i] = "connecting"
    /\ isConnected' = TRUE
    /\ opened' = opened + 1
    /\ invocations' = [invocations EXCEPT ![i] = "app"]
    /\ UNCHANGED <<connectCalls, formVars, authUser, serverVars, dashVars,
                   submitVars, browserVars, protectVars, regVars, beyondDb>>

\* mongoose.connect rejects: connectDB rethrows and the handler's await
\* rejects the invocation.
connectRejects(i) ==
    /\ invocations[i] = "connecting"
    /\ invocations' = [invocations EXCEPT ![i] = "rejected"]
    /\ UNCHANGED <<isConnected, connectCalls, opened, formVars, authUser, serverVars,
                   dashVars, submitVars, browserVars, protectVars, regVars, beyondDb>>

\* ------------------------------------------------- auth context and axios
NoCall == [api |-> "none", phase |-> "none", status |-> 0, user |-> NoUser,
           token |-> NoToken, rejected |-> FALSE, redirect |-> FALSE]

InitSession ==
    /\ authLoading = TRUE
    /\ authError = "none"
    /\ call = NoCall

\* The user object of a response: /me carries dailyBurnGoal, /login and
\* /register do not; weight is the schema default.
responseUser(r) ==
    IF r.status \in {200, 201}
    THEN [id |-> r.user, weight |-> DefaultWeight, xp |-> r.xp, streak |-> r.streak,
          dailyBurnGoal |-> IF r.route = "me" THEN users[r.user].dailyBurnGoal ELSE 0]
    ELSE NoUser

\* The response of the server as axios receives it.
Answered(api, r) ==
    [api |-> api, phase |-> "response", status |-> r.status, user |-> responseUser(r),
     token |-> IF r.route \in {"login", "register"} /\ r.status \in {200, 201}
               THEN [kind |-> "valid", id |-> r.user] ELSE NoToken,
     rejected |-> FALSE, redirect |-> FALSE]

SessionFrame ==
    UNCHANGED <<formVars, dashVars, submitVars, protectVars, regVars, dbVars,
                workouts, now, beyondSession>>

\* initAuth up to its await: without a token setLoading(false); with one,
\* GET /me is sent with it; expired: the token's 30 days are over.
initAuth(expired) ==
    /\ authLoading /\ call = NoCall
    /\ IF localStorage.token = NoToken
       THEN /\ authLoading' = FALSE
            /\ UNCHANGED <<call, res>>
       ELSE /\ IF expired
               THEN res' = Reply("me", 401, "none", 0, 0, NoLevel)
               ELSE getMeRoute(localStorage.token)
            /\ call' = Answered("getMe", res')
            /\ UNCHANGED authLoading
    /\ UNCHANGED <<users, authUser, authError, browserVars>>
    /\ SessionFrame

\* register(userData) up to its await
register(u) ==
    /\ ~authLoading /\ call = NoCall /\ location = "/login"
    /\ authError' = "none"
    /\ registerRoute(u)
    /\ call' = Answered("register", res')
    /\ UNCHANGED <<authUser, authLoading, browserVars>>
    /\ SessionFrame

\* login(credentials) up to its await
login(u, pwOk) ==
    /\ ~authLoading /\ call = NoCall /\ location = "/login"
    /\ authError' = "none"
    /\ loginRoute(u, pwOk)
    /\ call' = Answered("login", res')
    /\ UNCHANGED <<authUser, authLoading, browserVars>>
    /\ SessionFrame

\* Any other call of the api instance by a page of the logged-in user.
apiRequest(status) ==
    /\ ~authLoading /\ call = NoCall /\ authUser # NoUser
    /\ res' = Reply("other", status, "none", 0, 0, NoLevel)
    /\ call' = Answered("other", res')
    /\ UNCHANGED <<users, authUser, authLoading, authError, browserVars>>
    /\ SessionFrame

\* api.interceptors.response: a 2xx response passes; an error removes the
\* session on 401, sends the browser to /login and is rejected to the
\* caller.
interceptResponse ==
    /\ call.phase = "response"
    /\ IF call.status \in {200, 201}
       THEN /\ call' = [call EXCEPT !.phase = "intercepted"]
            /\ UNCHANGED browserVars
       ELSE /\ localStorage' = interceptedStorage(call.status)
            /\ location' = interceptedLocation(call.status)
            /\ call' = [call EXCEPT !.phase = "intercepted", !.rejected = TRUE,
                                    !.redirect = Redirects(call.status)]
    /\ UNCHANGED <<users, res, authUser, authLoading, authError>>
    /\ SessionFrame

\* The caller resumes after its await.  After a redirect the application
\* is loaded anew at /login, where initAuth finds no token.
resumeCall ==
    /\ call.phase = "intercepted"
    /\ call' = NoCall
    /\ IF call.redirect
       THEN /\ authUser' = NoUser
            /\ authLoading' = FALSE
            /\ authError' = "none"
            /\ UNCHANGED browserVars
       ELSE IF call.api = "getMe"
       THEN /\ authUser' = IF call.rejected THEN authUser ELSE call.user
            /\ localStorage' = IF call.rejected
                               THEN [token |-> NoToken, user |-> NoUser]
                               ELSE localStorage
            /\ authLoading' = FALSE
            /\ UNCHANGED <<authError, location>>
       ELSE IF call.api \in {"login", "register"}
       THEN /\ authUser' = IF call.rejected THEN authUser ELSE call.user
            /\ localStorage' = IF call.rejected THEN localStorage
                               ELSE [token |-> call.token, user |-> call.user]
            /\ authError' = IF call.rejected THEN "failed" ELSE authError
            /\ UNCHANGED <<authLoading, location>>
       ELSE UNCHANGED <<authUser, authLoading, authError, browserVars>>
    /\ UNCHANGED <<users, res>>
    /\ SessionFrame

\* logout()
logout ==
    /\ call = NoCall
    /\ localStorage' = [token |-> NoToken, user |-> NoUser]
    /\ authUser' = NoUser
    /\ UNCHANGED <<users, res, authLoading, authError, call, location>>
    /\ SessionFrame

\* updateUser(newData) by the Profile page with a new daily burn goal
updateUser(goal) ==
    /\ call = NoCall /\ authUser # NoUser
    /\ authUser' = [authUser EXCEPT !.dailyBurnGoal = goal]
    /\ localStorage' = [localStorage EXCEPT
                          !.user = [authUser EXCEPT !.dailyBurnGoal = goal]]
    /\ UNCHANGED <<users, res, authLoading, authError, call, location>>
    /\ SessionFrame

\* The user follows a link of the application.
Paths == {"/login", "/dashboard"}
navigate(path) ==
    /\ call = NoCall /\ ~authLoading
    /\ location' = path
    /\ UNCHANGED <<users, res, authUser, authLoading, authError, call, localStorage>>
    /\ SessionFrame

\* The user reloads the page: the application starts anew.
reloadPage ==
    /\ call = NoCall /\ ~authLoading
    /\ authUser' = NoUser
    /\ authLoading' = TRUE
    /\ authError' = "none"
    /\ UNCHANGED <<users, res, call, browserVars>>
    /\ SessionFrame

\* ------------------------------------------------------------ Nutrition page
\* Macros (protein, carbs, fats, fiber) are kept in tenths of a gram, the
\* precision calculateNutrition rounds them to; sums of tenths are exact
\* here, while the double sums of the page may differ from them in the
\* last binary digit.  The routes of /api/meals
\* are not part of the sources at hand: a created meal stores the values of
\* the request body, GET /meals/today answers the meals of the day with the
\* sums of their calories and macros, DELETE answers 404 for a meal that is
\* not there, and the search answers the foods that match the query.
\*
\* mealAPI as services/api.js defines it has create, delete and getToday
\* but neither search nor getCommon, which the page calls: with that object
\* both calls throw a TypeError before any request is sent.  The flag
\* mealAPIComplete tells whether the two bindings exist; it never changes.
NoFood == [id |-> "none"]
NoSummary == [id |-> "null"]
NoMeal == [id |-> 0]

\* A food of the search (values per 100 g) or a common food (values per
\* piece).
Rice == [id |-> "api_rice", common |-> FALSE, unit |-> "serving", servingSize |-> 150,
         calories |-> 130, protein |-> 27, carbs |-> 282, fats |-> 3, fiber |-> 4]
Oats == [id |-> "api_oats", common |-> FALSE, unit |-> "grams", servingSize |-> 40,
         calories |-> 389, protein |-> 169, carbs |-> 663, fats |-> 69, fiber |-> 106]
Banana == [id |-> "common_banana", common |-> TRUE, unit |-> "piece", servingSize |-> 0,
           calories |-> 105, protein |-> 13, carbs |-> 270, fats |-> 4, fiber |-> 31]
Dal == [id |-> "common_dal", common |-> TRUE, unit |-> "grams", servingSize |-> 0,
        calories |-> 116, protein |-> 90, carbs |-> 200, fats |-> 4, fiber |-> 80]
CommonFoods == <<Banana, Dal>>
Foods == {Rice, Oats, Banana, Dal}

\* What the user may type into the search box, as sequences of characters.
Queries == {<< >>, <<"r">>, <<"r", "i">>, <<"o", "a">>}

\* GET /meals/search?q=..., the foods of the response.
searchFoodsRoute(q) ==
    IF q = <<"r", "i">> THEN <<Rice>>
    ELSE IF q = <<"o", "a">> THEN <<Oats>>
    ELSE << >>

\* The quantity and unit inputs of the modal.
Quantities == {1, 2}
Units == {"serving", "grams"}

InitNutritionState ==
    /\ meals = << >>
    /\ summary = NoSummary
    /\ mealsLoading = TRUE
    /\ mealNotification = "none"
    /\ commonFoods = << >>
    /\ showAddModal = FALSE
    /\ searchQuery = << >>
    /\ debouncedSearch = << >>
    /\ searchResults = << >>
    /\ searching = FALSE
    /\ selectedFood = NoFood
    /\ quantity = 1
    /\ unit = "serving"
    /\ mealSubmitting = FALSE
    /\ mealCalls = {}
    /\ mealIssued = 0
    /\ searchIssued = 0
    /\ mealDb = << >>

InitNutrition ==
    /\ InitNutritionState
    /\ mealAPIComplete = TRUE

NutritionFrame ==
    UNCHANGED <<formVars, serverVars, dashVars, authUser, submitVars, browserVars,
                protectVars, regVars, dbVars, sessionVars, mealAPIComplete>>

\* The multiplier of calculateNutrition as a fraction <<numerator,
\* denominator>>.
multiplier(food, q, u) ==
    IF food.common
    THEN IF food.unit = "grams" THEN <<q, 100>> ELSE <<q, 1>>
    ELSE CASE u \in {"grams", "ml"} -> <<q, 100>>
           [] u = "cups" -> <<q * 240, 100>>
           [] u = "pieces" ->
                <<q * (IF food.servingSize = 0 THEN 50 ELSE food.servingSize), 100>>
           [] u = "serving" ->
                <<q * (IF food.servingSize = 0 THEN 100 ELSE food.servingSize), 100>>
           [] u = "tbsp" -> <<q * 15, 100>>
           [] OTHER -> <<q, 1>>

calculateNutrition(food, q, u) ==
    IF food = NoFood
    THEN [calories |-> 0, protein |-> 0, carbs |-> 0, fats |-> 0, fiber |-> 0]
    ELSE LET mult == multiplier(food, q, u)
         IN  [calories |-> MathRound(food.calories * mult[1], mult[2]),
              protein |-> MathRound(food.protein * mult[1], mult[2]),
              carbs |-> MathRound(food.carbs * mult[1], mult[2]),
              fats |-> MathRound(food.fats * mult[1], mult[2]),
              fiber |-> MathRound(food.fiber * mult[1], mult[2])]

\* prev?.field || 0
totalOf(prev, field) == IF prev = NoSummary THEN 0 ELSE prev[field]

\* The sum of a field over a list of meals.
RECURSIVE mealSum(_, _)
mealSum(list, field) ==
    IF list = << >> THEN 0 ELSE Head(list)[field] + mealSum(Tail(list), field)

\* GET /meals/today: the summary of the response.
todaySummary(list) ==
    [totalCalories |-> mealSum(list, "calories"),
     totalProtein |-> mealSum(list, "protein"),
     totalCarbs |-> mealSum(list, "carbs"),
     totalFats |-> mealSum(list, "fats"),
     totalFiber |-> mealSum(list, "fiber")]

\* prev.filter(m => m._id !== mealId)
RECURSIVE withoutMeal(_, _)
withoutMeal(list, mealId) ==
    IF list = << >> THEN << >>
    ELSE IF Head(list).id = mealId THEN withoutMeal(Tail(list), mealId)
    ELSE <<Head(list)>> \o withoutMeal(Tail(list), mealId)

\* meals.find(m => m._id === mealId)
findMeal(list, mealId) ==
    IF \E i \in 1..Len(list) : list[i].id = mealId
    THEN list[CHOOSE i \in 1..Len(list) :
                 /\ list[i].id = mealId
                 /\ \A j \in 1..(i - 1) : list[j].id # mealId]
    ELSE NoMeal

\* The effect on mount: fetchMeals.  Promise.all is given the results of
\* getToday() and getCommon(); without the getCommon binding the call
\* throws, and so does a failed request: the catch only logs.
fetchMeals(ok) ==
    /\ mealsLoading
    /\ IF ok /\ mealAPIComplete
       THEN /\ meals' = mealDb
            /\ summary' = todaySummary(mealDb)
            /\ commonFoods' = CommonFoods
       ELSE UNCHANGED <<meals, summary, commonFoods>>
    /\ mealsLoading' = FALSE
    /\ UNCHANGED <<mealNotification, showAddModal, searchQuery, debouncedSearch,
                   searchResults, searching, selectedFood, quantity, unit,
                   mealSubmitting, mealCalls, mealIssued, searchIssued, mealDb>>
    /\ NutritionFrame

\* The "Add Food" button.
openAddModal ==
    /\ ~mealsLoading /\ ~showAddModal
    /\ showAddModal' = TRUE
    /\ UNCHANGED <<meals, summary, mealsLoading, mealNotification, commonFoods,
                   searchQuery, debouncedSearch, searchResults, searching,
                   selectedFood, quantity, unit, mealSubmitting,
                   mealCalls, mealIssued, searchIssued, mealDb>>
    /\ NutritionFrame

\* The close button of the modal.
closeAddModal ==
    /\ showAddModal
    /\ showAddModal' = FALSE
    /\ selectedFood' = NoFood
    /\ searchQuery' = << >>
    /\ UNCHANGED <<meals, summary, mealsLoading, mealNotification, commonFoods,
                   debouncedSearch, searchResults, searching, quantity, unit,
                   mealSubmitting, mealCalls, mealIssued, searchIssued, mealDb>>
    /\ NutritionFrame

\* The search input: onChange sets searchQuery, which restarts the timer of
\* useDebounce.
setSearchQuery(q) ==
    /\ showAddModal /\ selectedFood = NoFood
    /\ q # searchQuery
    /\ searchQuery' = q
    /\ UNCHANGED <<meals, summary, mealsLoading, mealNotification, commonFoods,
                   showAddModal, debouncedSearch, searchResults, searching,
                   selectedFood, quantity, unit, mealSubmitting,
                   mealCalls, mealIssued, searchIssued, mealDb>>
    /\ NutritionFrame

\* The timer of useDebounce fires: debouncedSearch takes the value of
\* searchQuery and, having changed, runs the searchFoods effect up to its
\* await.  Without the search binding the call throws inside the try:
\* the catch empties the results and the finally resets searching.
debounceFires ==
    /\ debouncedSearch # searchQuery
    /\ debouncedSearch' = searchQuery
    /\ IF Len(searchQuery) < 2
       THEN /\ searchResults' = << >>
            /\ UNCHANGED <<searching, mealCalls, searchIssued>>
       ELSE IF mealAPIComplete
       THEN /\ searchIssued < MaxSearches
            /\ searching' = TRUE
            /\ searchIssued' = searchIssued + 1
            /\ mealCalls' = mealCalls \cup
                   {[kind |-> "search", n |-> searchIssued + 1, q |-> searchQuery,
                     meal |-> NoMeal]}
            /\ UNCHANGED searchResults
       ELSE /\ searchResults' = << >>
            /\ searching' = FALSE
            /\ UNCHANGED <<mealCalls, searchIssued>>
    /\ UNCHANGED <<meals, summary, mealsLoading, mealNotification, commonFoods,
                   showAddModal, searchQuery, selectedFood, quantity, unit,
                   mealSubmitting, mealIssued, mealDb>>
    /\ NutritionFrame

\* searchFoods after its await: the response of a search arrives, or the
\* request fails.
searchFoodsDone(c, ok) ==
    /\ c \in mealCalls /\ c.kind = "search"
    /\ searchResults' = IF ok THEN searchFoodsRoute(c.q) ELSE << >>
    /\ searching' = FALSE
    /\ mealCalls' = mealCalls \ {c}
    /\ UNCHANGED <<meals, summary, mealsLoading, mealNotification, commonFoods,
                   showAddModal, searchQuery, debouncedSearch, selectedFood,
                   quantity, unit, mealSubmitting, mealIssued, searchIssued, mealDb>>
    /\ NutritionFrame

\* The foods the modal lists: the search results and the common foods.
listedFoods ==
    {searchResults[i] : i \in 1..Len(searchResults)}
        \cup {commonFoods[i] : i \in 1..Len(commonFoods)}

handleSelectFood(food) ==
    /\ showAddModal /\ selectedFood = NoFood
    /\ food \in listedFoods
    /\ selectedFood' = food
    /\ quantity' = 1
    /\ unit' = food.unit
    /\ UNCHANGED <<meals, summary, mealsLoading, mealNotification, commonFoods,
                   showAddModal, searchQuery, debouncedSearch, searchResults,
                   searching, mealSubmitting, mealCalls, mealIssued, searchIssued,
                   mealDb>>
    /\ NutritionFrame

\* The quantity and unit inputs of a selected food.
setQuantity(q) ==
    /\ showAddModal /\ selectedFood # NoFood
    /\ q # quantity
    /\ quantity' = q
    /\ UNCHANGED <<meals, summary, mealsLoading, mealNotification, commonFoods,
                   showAddModal, searchQuery, debouncedSearch, searchResults,
                   searching, selectedFood, unit, mealSubmitting,
                   mealCalls, mealIssued, searchIssued, mealDb>>
    /\ NutritionFrame

setUnit(u) ==
    /\ showAddModal /\ selectedFood # NoFood
    /\ u # unit
    /\ unit' = u
    /\ UNCHANGED <<meals, summary, mealsLoading, mealNotification, commonFoods,
                   showAddModal, searchQuery, debouncedSearch, searchResults,
                   searching, selectedFood, quantity, mealSubmitting,
                   mealCalls, mealIssued, searchIssued, mealDb>>
    /\ NutritionFrame

\* handleSubmit up to its await; the button is disabled while submitting
\* and while the computed calories are zero.  The request carries the
\* nutrition computed now.
handleSubmit ==
    /\ showAddModal /\ selectedFood # NoFood
    /\ ~mealSubmitting
    /\ calculateNutrition(selectedFood, quantity, unit).calories # 0
    /\ mealIssued < MaxMeals
    /\ mealSubmitting' = TRUE
    /\ mealIssued' = mealIssued + 1
    /\ mealCalls' = mealCalls \cup
           {[kind |-> "create", n |-> mealIssued + 1, q |-> << >>,
             meal |-> [id |-> mealIssued + 1]
                          @@ calculateNutrition(selectedFood, quantity, unit)]}
    /\ UNCHANGED <<meals, summary, mealsLoading, mealNotification, commonFoods,
                   showAddModal, searchQuery, debouncedSearch, searchResults,
                   searching, selectedFood, quantity, unit, searchIssued, mealDb>>
    /\ NutritionFrame

\* POST /api/meals answers and handleSubmit resumes: on 201 the meal is put
\* in front of the list and its nutrition added to the summary, the modal
\* is closed and the search reset; on a failure only the notification.
handleSubmitDone(c, ok) ==
    /\ c \in mealCalls /\ c.kind = "create"
    /\ mealCalls' = mealCalls \ {c}
    /\ IF ok
       THEN /\ mealDb' = <<c.meal>> \o mealDb
            /\ meals' = <<c.meal>> \o meals
            /\ summary' =
                 [totalCalories |-> totalOf(summary, "totalCalories") + c.meal.calories,
                  totalProtein |-> totalOf(summary, "totalProtein") + c.meal.protein,
                  totalCarbs |-> totalOf(summary, "totalCarbs") + c.meal.carbs,
                  totalFats |-> totalOf(summary, "totalFats") + c.meal.fats,
                  totalFiber |-> totalOf(summary, "totalFiber") + c.meal.fiber]
            /\ mealNotification' = "success"
            /\ showAddModal' = FALSE
            /\ selectedFood' = NoFood
            /\ searchQuery' = << >>
            /\ searchResults' = << >>
       ELSE /\ mealNotification' = "error"
            /\ UNCHANGED <<mealDb, meals, summary, showAddModal, selectedFood,
                           searchQuery, searchResults>>
    /\ mealSubmitting' = FALSE
    /\ UNCHANGED <<mealsLoading, commonFoods, debouncedSearch, searching,
                   quantity, unit, mealIssued, searchIssued>>
    /\ NutritionFrame

\* handleDelete up to its await: the meal is looked up in the list of this
\* render and DELETE /api/meals/:id is sent.
handleDelete(mealId) ==
    /\ ~mealsLoading
    /\ findMeal(meals, mealId) # NoMeal
    /\ mealCalls' = mealCalls \cup
           {[kind |-> "delete", n |-> mealId, q |-> << >>,
             meal |-> findMeal(meals, mealId)]}
    /\ UNCHANGED <<meals, summary, mealsLoading, mealNotification, commonFoods,
                   showAddModal, searchQuery, debouncedSearch, searchResults,
                   searching, selectedFood, quantity, unit, mealSubmitting,
                   mealIssued, searchIssued, mealDb>>
    /\ NutritionFrame

\* DELETE answers and handleDelete resumes: on success the meal leaves the
\* list and its calories, protein, carbs and fats leave the summary, none
\* going below zero; on a failure (also the 404 of a meal deleted before)
\* the catch only logs.
handleDeleteDone(c, ok) ==
    /\ c \in mealCalls /\ c.kind = "delete"
    /\ mealCalls' = mealCalls \ {c}
    /\ IF ok /\ findMeal(mealDb, c.n) # NoMeal
       THEN /\ mealDb' = withoutMeal(mealDb, c.n)
            /\ meals' = withoutMeal(meals, c.n)
            /\ summary' =
                 [totalCalories |->
                      Max(0, totalOf(summary, "totalCalories") - c.meal.calories),
                  totalProtein |->
                      Max(0, totalOf(summary, "totalProtein") - c.meal.protein),
                  totalCarbs |-> Max(0, totalOf(summary, "totalCarbs") - c.meal.carbs),
                  totalFats |-> Max(0, totalOf(summary, "totalFats") - c.meal.fats),
                  totalFiber |-> totalOf(summary, "totalFiber")]
       ELSE UNCHANGED <<mealDb, meals, summary>>
    /\ UNCHANGED <<mealsLoading, mealNotification, commonFoods, showAddModal,
                   searchQuery, debouncedSearch, searchResults, searching,
                   selectedFood, quantity, unit, mealSubmitting, mealIssued,
                   searchIssued>>
    /\ NutritionFrame

\* The notification disappears after three seconds.
clearMealNotification ==
    /\ mealNotification # "none"
    /\ mealNotification' = "none"
    /\ UNCHANGED <<meals, summary, mealsLoading, commonFoods, showAddModal,
                   searchQuery, debouncedSearch, searchResults, searching,
                   selectedFood, quantity, unit, mealSubmitting,
                   mealCalls, mealIssued, searchIssued, mealDb>>
    /\ NutritionFrame

\* ---------------------------------------------------------- specifications
InitBeyondSession == InitNutrition

InitBeyondDb ==
    /\ InitSession
    /\ InitBeyondSession

InitBeyondReg ==
    /\ InitDb
    /\ InitBeyondDb

InitBeyondProtect ==
    /\ InitReg
    /\ InitBeyondReg

InitBeyondSubmit ==
    /\ InitProtect
    /\ InitBeyondProtect

InitMore ==
    /\ InitSubmit
    /\ InitBrowser
    /\ InitBeyondSubmit

\* The workout form of the client.
InitWorkoutPage ==
    /\ InitClient
    /\ InitServer
    /\ InitDashboard
    /\ InitMore

NextWorkoutPage ==
    \/ \E type \in WorkoutTypes : handleSelectWorkout(type)
    \/ \E d \in DurationValues : setDuration(d)
    \/ \E r \in RepsValues : setReps(r)
    \/ \E s \in SetsValues : setSets(s)
    \/ \E level \in Intensities : setIntensity(level)
    \/ cancelForm

SpecWorkoutPage == InitWorkoutPage /\ [][NextWorkoutPage]_vars

\* The rank lookup, applied by GET /api/auth/me to users of sampled XP.
XpSamples == {x \in {k * 500 + j : k \in 0..MaxXpStep, j \in {-1, 0, 1}} : x >= 0}

InitRank ==
    /\ InitForm
    /\ authUser = NoUser
    /\ \E x \in XpSamples : users = [u \in {"u1"} |-> [NewUser EXCEPT !.xp = x]]
    /\ workouts = << >>
    /\ now = 0
    /\ res = NoRes
    /\ InitDashboard
    /\ InitMore

NextRank == \E tok \in Tokens : GetMe(tok)

SpecRank == InitRank /\ [][NextRank]_vars

\* The server: registration, login, GET /me, workout logging, the clock.
InitStreak ==
    /\ InitForm
    /\ authUser = NoUser
    /\ InitServer
    /\ InitDashboard
    /\ InitMore

NextStreak ==
    \/ \E u \in UserIds : Register(u)
    \/ \E u \in UserIds, pwOk \in BOOLEAN : Login(u, pwOk)
    \/ \E tok \in Tokens : GetMe(tok)
    \/ \E tok \in Tokens, c \in WorkoutCalories : LogWorkout(tok, c)
    \/ \E tok \in Tokens, goal \in BurnGoals : UpdateProfile(tok, goal)
    \/ Tick

SpecStreak == InitStreak /\ [][NextStreak]_vars

\* The Dashboard: weekly aggregation of the fetched stats.
SeqsUpTo(S, n) == UNION {[1..k -> S] : k \in 0..n}

\* Dates of weekly entries: Monday 08:00 and 20:00, Sunday 08:00.
EntryDates == {8, 20, 6 * HoursPerDay + 8}
MealEntries == {[date |-> d, calories |-> c] : d \in EntryDates, c \in {300, 700}}
WorkoutEntries ==
    {[date |-> d, totalCalories |-> w[1], count |-> w[2], totalDuration |-> w[3]] :
        d \in EntryDates, w \in {<<200, 2, 30>>, <<450, 3, 90>>}}

WeeklyStats ==
    {[null |-> FALSE, weeklyMeals |-> m, weeklyWorkouts |-> w,
      caloriesBurned |-> 0, caloriesConsumed |-> 0] :
        m \in SeqsUpTo(MealEntries, MaxMealEntries),
        w \in SeqsUpTo(WorkoutEntries, MaxWorkoutEntries)}

InitWeekly ==
    /\ InitForm
    /\ authUser = NoUser
    /\ InitServer
    /\ InitDashboard
    /\ InitMore

NextWeekly ==
    \/ \E st \in WeeklyStats : fetchStats(st)
    \/ fetchStatsFailed

SpecWeekly == InitWeekly /\ [][NextWeekly]_vars

\* The Dashboard: insights for today's totals, the week's workouts and the
\* user's goal and streak.
InsightStats ==
    {[null |-> FALSE, weeklyMeals |-> << >>, weeklyWorkouts |-> w,
      caloriesBurned |-> b, caloriesConsumed |-> c] :
        w \in SeqsUpTo(WorkoutEntries, MaxWorkoutEntries),
        b \in {0, 200, 500, 1000}, c \in {0, 200, 1500}}

DashboardUsers ==
    {NoUser} \cup
    {[id |-> "u1", weight |-> DefaultWeight, xp |-> 0, streak |-> k,
      dailyBurnGoal |-> g] : k \in {3, 7, 8}, g \in {0, 300, DefaultBurnGoal}}

InitInsights ==
    /\ InitForm
    /\ authUser \in DashboardUsers
    /\ InitServer
    /\ InitDashboard
    /\ InitMore

NextInsights ==
    \/ \E st \in InsightStats : fetchStats(st)
    \/ fetchStatsFailed

SpecInsights == InitInsights /\ [][NextInsights]_vars

\* The Workout page of a logged-in user and a second tab of the same
\* browser, both submitting quests to the server.
SubmitUser == [id |-> "u1", weight |-> DefaultWeight, xp |-> 0, streak |-> 0,
               dailyBurnGoal |-> DefaultBurnGoal]

InitSubmitting ==
    /\ InitForm
    /\ authUser = SubmitUser
    /\ users = [u \in {"u1"} |-> NewUser]
    /\ workouts = << >>
    /\ now = 0
    /\ res = NoRes
    /\ InitDashboard
    /\ InitSubmit
    /\ localStorage = [token |-> [kind |-> "valid", id |-> "u1"], user |-> SubmitUser]
    /\ location = "/workout"
    /\ InitBeyondSubmit

NextSubmitting ==
    \/ \E type \in {t \in WorkoutTypes : t.type \in {"running", "pushups"}} :
          handleSelectWorkout(type)
    \/ handleSubmitWorkout
    \/ secondTabSubmit
    \/ \E r \in inflight, calories \in WorkoutCalories : serveWorkout(r, calories)
    \/ \E r \in inflight : serveWorkoutFails(r)
    \/ \E resp \in responses : handleSubmitWorkoutDone(resp)
    \/ \E resp \in responses : secondTabDone(resp)
    \/ clearNotification

SpecSubmitting == InitSubmitting /\ [][NextSubmitting]_vars

\* Requests with every kind of Authorization header pass the protect
\* middleware while users register.
InitProtecting ==
    /\ InitForm
    /\ authUser = NoUser
    /\ InitServer
    /\ InitDashboard
    /\ InitMore

NextProtecting ==
    \/ \E header \in Headers : protectBegin(header)
    \/ \E throws \in BOOLEAN : protectFindById(throws)
    \/ protectEnd
    \/ \E u \in UserIds : Register(u)

SpecProtecting == InitProtecting /\ [][NextProtecting]_vars

\* Concurrent registrations.
InitRegistering ==
    /\ InitForm
    /\ authUser = NoUser
    /\ InitServer
    /\ InitDashboard
    /\ InitMore

NextRegistering ==
    \/ \E i \in 1..MaxRegistrations, username \in Usernames, email \in Emails,
          valid \in BOOLEAN : registerArrive(i, username, email, valid)
    \/ \E i \in 1..MaxRegistrations : registerFindOne(i)
    \/ \E i \in 1..MaxRegistrations : registerCreate(i)

SpecRegistering == InitRegistering /\ [][NextRegistering]_vars

\* Invocations of the serverless handler in one process.
InitServerless ==
    /\ InitForm
    /\ authUser = NoUser
    /\ InitServer
    /\ InitDashboard
    /\ InitMore

NextServerless ==
    \/ \E i \in 1..MaxInvocations : handlerArrive(i)
    \/ \E i \in 1..MaxInvocations : connectResolves(i)
    \/ \E i \in 1..MaxInvocations : connectRejects(i)

SpecServerless == InitServerless /\ [][NextServerless]_vars

\* One browser tab: the auth context, the response interceptor and the
\* auth routes of the server.
InitSessions ==
    /\ InitForm
    /\ authUser = NoUser
    /\ InitServer
    /\ InitDashboard
    /\ InitMore

NextSessions ==
    \/ \E expired \in BOOLEAN : initAuth(expired)
    \/ \E u \in UserIds : register(u)
    \/ \E u \in UserIds, pwOk \in BOOLEAN : login(u, pwOk)
    \/ \E status \in {200, 401, 500} : apiRequest(status)
    \/ interceptResponse
    \/ resumeCall
    \/ logout
    \/ \E goal \in BurnGoals : updateUser(goal)
    \/ \E path \in Paths : navigate(path)
    \/ reloadPage

SpecSessions == InitSessions /\ [][NextSessions]_vars

\* The Nutrition page with the meals routes of the server; the present
\* meals of the day and the completeness of mealAPI are given at the start.
InitNutritionPage ==
    /\ InitForm
    /\ authUser = NoUser
    /\ InitServer
    /\ InitDashboard
    /\ InitSubmit
    /\ InitBrowser
    /\ InitProtect
    /\ InitReg
    /\ InitDb
    /\ InitSession
    /\ InitNutritionState
    /\ mealAPIComplete \in BOOLEAN

\* The user logs common foods and deletes meals.
NextNutritionPage ==
    \/ \E ok \in BOOLEAN : fetchMeals(ok)
    \/ openAddModal
    \/ closeAddModal
    \/ \E food \in Foods : handleSelectFood(food)
    \/ \E q \in Quantities : setQuantity(q)
    \/ \E u \in Units : setUnit(u)
    \/ handleSubmit
    \/ \E c \in mealCalls, ok \in BOOLEAN : handleSubmitDone(c, ok)
    \/ \E mealId \in 1..MaxMeals : handleDelete(mealId)
    \/ \E c \in mealCalls, ok \in BOOLEAN : handleDeleteDone(c, ok)
    \/ clearMealNotification

SpecNutritionPage == InitNutritionPage /\ [][NextNutritionPage]_vars

\* The user searches foods in the modal and logs what was found.
NextFoodSearch ==
    \/ \E ok \in BOOLEAN : fetchMeals(ok)
    \/ openAddModal
    \/ closeAddModal
    \/ \E q \in Queries : setSearchQuery(q)
    \/ debounceFires
    \/ \E c \in mealCalls, ok \in BOOLEAN : searchFoodsDone(c, ok)
    \/ \E food \in Foods : handleSelectFood(food)
    \/ handleSubmit
    \/ \E c \in mealCalls, ok \in BOOLEAN : handleSubmitDone(c, ok)

SpecFoodSearch == InitNutritionPage /\ [][NextFoodSearch]_vars

\* ==================================================================== claims

\* C1: the rank GET /api/auth/me reports for an XP value x >= 0 is exactly
\* one tier of the levels table, its threshold does not exceed x, and no tier
\* whose threshold does not exceed x has a larger threshold; xp = 1000 gives
\* D and xp = 999 gives the base tier E.
C1_RankIsGreatestThresholdAtMostXp ==
    (res.route = "me" /\ res.status = 200) =>
        /\ Cardinality({i \in 1..Len(levels) : levels[i] = res.level}) = 1
        /\ res.level.minXp <= res.xp
        /\ \A i \in 1..Len(levels) :
              levels[i].minXp <= res.xp => levels[i].minXp <= res.level.minXp
        /\ (res.xp = 1000 => res.level.rank = "D")
        /\ (res.xp = 999 => res.level.rank = "E")

C1_Witness ==
    /\ res.route = "me" /\ res.status = 200
    /\ res.xp = 1000 /\ res.level.rank = "D"

\* C2: the rank GET /api/auth/me reports for an XP value is the tier of the
\* README rank table whose "XP Required" is the largest not exceeding it.
C2_RankFollowsReadme ==
    (res.route = "me" /\ res.status = 200) =>
        res.level.rank = lookupLevel(ReadmeRanks, res.xp).rank

\* The intensity factor of the claims, in tenths: low 0.8, moderate 1.0,
\* high 1.2.
ClaimedFactor10(int) ==
    CASE int = "low" -> 8 [] int = "moderate" -> 10 [] int = "high" -> 12

\* c is the nearest integer to n / d, ties upwards (n >= 0, d > 0).
IsRounded(c, n, d) == d * (2 * c - 1) <= 2 * n /\ 2 * n < d * (2 * c + 1)

\* C3: the XP reward shown for an estimate of c calories is max(5,
\* round(c / 2)): an integer >= 5, non-decreasing in c, exactly 5 for c from
\* 0 to 10 (the largest value whose rounded half is at most 5) and the
\* rounded half of c above that.
C3_XpRewardFloorAndRounding ==
    LET c == estimate.calories
    IN  /\ xpReward \in Nat
        /\ xpReward >= 5
        /\ (c <= 10 => xpReward = 5)
        /\ (c > 10 => xpReward > 5 /\ IsRounded(xpReward, c, 2))
        /\ xpReward <= xpRewardPreview(c + 1)

C3_Witness ==
    /\ FormShown
    /\ estimate.calories = 11
    /\ xpReward = 6

\* C4: for a time-based type the estimate is round(caloriesPer30Min *
\* (duration / 30) * intensityFactor), whatever the user's weight, the reps
\* and the sets are; rate 300, 45 minutes, high intensity gives 540.
C4_DurationModeEstimate ==
    (FormShown /\ selectedType.inputType = "time") =>
        /\ IsRounded(estimate.calories,
                     selectedType.caloriesPer30Min * duration
                       * ClaimedFactor10(intensity),
                     30 * 10)
        /\ \A w \in Weights \cup {0}, r \in RepsValues, s \in SetsValues :
              calculateEstimatedCalories(selectedType, duration, r, s, intensity,
                                         [authUser EXCEPT !.weight = w]).calories
                = estimate.calories
        /\ (selectedType.caloriesPer30Min = 300 /\ duration = 45
              /\ intensity = "high" => estimate.calories = 540)

C4_Witness ==
    /\ FormShown /\ selectedType.inputType = "time"
    /\ selectedType.caloriesPer30Min = 300 /\ duration = 45 /\ intensity = "high"
    /\ authUser.weight = 105
    /\ estimate.calories = 540

\* C5: for a count-based type with a per-rep rate in the catalog and a user
\* with a weight, the estimate is round(caloriesPerRep * reps * sets *
\* intensityFactor * (weight / 70)); rate 0.3, 20 reps, 3 sets, moderate
\* intensity, 70 kg gives 18.
C5_CountModeEstimate ==
    (/\ FormShown /\ selectedType.inputType = "count"
     /\ selectedType.caloriesPerRep10 # NoRate
     /\ authUser.weight # 0) =>
        /\ IsRounded(estimate.calories,
                     selectedType.caloriesPerRep10 * reps * sets
                       * ClaimedFactor10(intensity) * authUser.weight,
                     10 * 10 * 70)
        /\ (selectedType.caloriesPerRep10 = 3 /\ reps = 20 /\ sets = 3
              /\ intensity = "moderate" /\ authUser.weight = 70
              => estimate.calories = 18)

C5_Witness ==
    /\ FormShown /\ selectedType.inputType = "count"
    /\ selectedType.caloriesPerRep10 = 5 /\ authUser.weight = 105
    /\ reps = 15 /\ sets = 1 /\ intensity = "moderate"
    /\ estimate.calories = 11

\* C6: the intensity of the form is one of low, moderate, high; the factor
\* the estimator uses for it is 0.8, 1.0, 1.2 respectively; and for the
\* workout at hand the estimate at low <= at moderate <= at high.
C6_IntensityFactors ==
    LET est(int) == calculateEstimatedCalories(selectedType, duration, reps, sets,
                                               int, authUser).calories
    IN  /\ intensity \in {"low", "moderate", "high"}
        /\ intensityMod10(intensity) = ClaimedFactor10(intensity)
        /\ est("low") <= est("moderate")
        /\ est("moderate") <= est("high")
        /\ estimate.calories = est(intensity)

C6_Witness ==
    /\ FormShown /\ intensity = "low"
    /\ selectedType.caloriesPer30Min = 300 /\ duration = 45
    /\ estimate.calories = 360

Stale(u) ==
    /\ u \in DOMAIN users
    /\ users[u].lastWorkoutDate # NoDate
    /\ (now \div 24) - (users[u].lastWorkoutDate \div 24) > 1

\* C8: a successful login of a user whose lastWorkoutDate is set and whose
\* last workout lies more than one calendar day before today sets the stored
\* streak to 0 and reports streak 0 in its response.
C8_LoginResetsStaleStreak ==
    [][\A u \in UserIds :
          (Login(u, TRUE) /\ Stale(u)) =>
              /\ users'[u].streak = 0
              /\ res'.route = "login" /\ res'.status = 200 /\ res'.user = u
              /\ res'.streak = 0]_vars

C8_Witness ==
    /\ res.route = "login" /\ res.status = 200
    /\ res.user \in DOMAIN users
    /\ Stale(res.user)
    /\ users[res.user].streak = 0
    /\ res.streak = 0
    /\ \E i \in 1..Len(workouts) : workouts[i].user = res.user

\* C9: login and GET /api/auth/me alike report streak 0 whenever the user's
\* last workout lies more than one calendar day before today.
C9_EveryReadCorrectsStreak ==
    [][\A u \in UserIds :
          /\ (Login(u, TRUE) /\ Stale(u)) => res'.streak = 0
          /\ (GetMe([kind |-> "valid", id |-> u]) /\ Stale(u)) => res'.streak = 0
      ]_vars

\* C10: logging a workout on day D makes the streak 1 when there is no
\* lastWorkoutDate, leaves it unchanged when D is the day of lastWorkoutDate,
\* increases it by exactly 1 when D is the day after, and makes it 1 after a
\* longer gap; the streak after logging a workout is never 0.
C10_WritePathStreakRule ==
    [][\A u \in UserIds, c \in WorkoutCalories :
          (LogWorkout([kind |-> "valid", id |-> u], c) /\ u \in DOMAIN users) =>
              LET last == users[u].lastWorkoutDate
                  gap == (now \div 24) - (last \div 24)
              IN  /\ (last = NoDate => users'[u].streak = 1)
                  /\ (last # NoDate /\ gap = 0 =>
                        users'[u].streak = users[u].streak)
                  /\ (last # NoDate /\ gap = 1 =>
                        users'[u].streak = users[u].streak + 1)
                  /\ (last # NoDate /\ gap > 1 => users'[u].streak = 1)
                  /\ users'[u].streak >= 1
                  /\ res'.streak = users'[u].streak
      ]_vars

\* A workout logged on the day after the previous one of the same user: the
\* streak reported is 2.
C10_Witness ==
    /\ res.route = "workouts" /\ res.status = 201
    /\ Len(workouts) = 2
    /\ workouts[1].user = res.user /\ workouts[2].user = res.user
    /\ (workouts[2].date \div 24) = (workouts[1].date \div 24) + 1
    /\ users[res.user].streak = 2
    /\ res.streak = 2

\* C11: a user's stored XP is 0 at registration and no operation (register,
\* login, GET /me, profile update, workout logging) lowers it: after every
\* step each user is still stored and its XP is at least what it was.
C11_XpNeverDecreases ==
    [][/\ \A u \in DOMAIN users :
             u \in DOMAIN users' /\ users'[u].xp >= users[u].xp
       /\ \A u \in DOMAIN users' \ DOMAIN users : users'[u].xp = 0]_vars

\* A profile update answered for a user who has earned XP in two workouts.
C11_Witness ==
    /\ res.route = "profile" /\ res.status = 200
    /\ res.user \in DOMAIN users
    /\ users[res.user].dailyBurnGoal = 300
    /\ users[res.user].xp = 275
    /\ res.xp = 275

\* C12: a user's stored streak is 0 at registration and after every step it
\* is a non-negative integer.
C12_StreakIsNatural ==
    [][\A u \in DOMAIN users' :
          /\ users'[u].streak \in Nat
          /\ (u \notin DOMAIN users => users'[u].streak = 0)]_vars

\* A login has cleared the streak of a user who had logged a workout.
C12_Witness ==
    /\ \E u \in DOMAIN users :
          /\ users[u].streak = 0
          /\ users[u].lastWorkoutDate # NoDate
          /\ res.route = "login" /\ res.user = u
    /\ Len(workouts) = 1

\* Weekday label of a date, counted from the epoch Monday.
DayLabelOf(t) == weekDays[((t \div HoursPerDay) % 7) + 1]

RECURSIVE SeqSum(_)
SeqSum(seq) == IF seq = << >> THEN 0 ELSE Head(seq) + SeqSum(Tail(seq))

ChartColumn(field) == [i \in 1..Len(weeklyChartData) |-> weeklyChartData[i][field]]

\* C13: once the page has rendered there are exactly 7 buckets labeled Mon
\* .. Sun in that order; a bucket with no meal record of its weekday has
\* intake 0, one with no workout record of its weekday has burned, workouts
\* and duration 0, one with neither has net 0 as well; with no records at
\* all (or no stats object) every weekly total is 0.
C13_EmptyWeekIsAllZero ==
    ~loading =>
      /\ Len(weeklyChartData) = 7
      /\ \A i \in 1..7 :
            LET b == weeklyChartData[i]
                noMeal == \A k \in 1..Len(stats.weeklyMeals) :
                             DayLabelOf(stats.weeklyMeals[k].date) # b.day
                noWorkout == \A k \in 1..Len(stats.weeklyWorkouts) :
                                DayLabelOf(stats.weeklyWorkouts[k].date) # b.day
            IN  /\ b.day = <<"Mon", "Tue", "Wed", "Thu", "Fri", "Sat", "Sun">>[i]
                /\ noMeal => b.intake = 0
                /\ noWorkout => b.burned = 0 /\ b.workouts = 0 /\ b.duration = 0
                /\ (noMeal /\ noWorkout) => b.net = 0
      /\ (stats.weeklyMeals = << >> /\ stats.weeklyWorkouts = << >>) =>
            /\ totals.totalIntake = 0 /\ totals.totalBurned = 0
            /\ totals.totalWorkouts = 0 /\ totals.totalDuration = 0
            /\ totals.netWeekly = 0

\* The page has rendered without a stats object: 7 zeroed buckets.
C13_Witness ==
    /\ ~loading
    /\ stats.null
    /\ Len(weeklyChartData) = 7
    /\ \A i \in 1..7 : weeklyChartData[i].intake = 0 /\ weeklyChartData[i].workouts = 0
    /\ totals.totalIntake = 0

\* C14: once the page has rendered, the per-day intake summed over the 7
\* buckets equals the calories summed over all meal records, and the
\* per-day burned and workout counts summed over the buckets equal the
\* totals over all workout records, also when records share a weekday.
C14_AggregationIsPartition ==
    ~loading =>
      /\ SeqSum(ChartColumn("intake")) =
            SeqSum([k \in 1..Len(stats.weeklyMeals) |-> stats.weeklyMeals[k].calories])
      /\ SeqSum(ChartColumn("burned")) =
            SeqSum([k \in 1..Len(stats.weeklyWorkouts) |->
                       stats.weeklyWorkouts[k].totalCalories])
      /\ SeqSum(ChartColumn("workouts")) =
            SeqSum([k \in 1..Len(stats.weeklyWorkouts) |-> stats.weeklyWorkouts[k].count])

\* C15: once the page has rendered, every bucket has net = intake - burned,
\* the weekly totals of intake, burned, workouts and duration are the sums
\* of the 7 per-day values, and the weekly net is total intake - total
\* burned, which is the sum of the per-day nets.
C15_NetAndTotals ==
    ~loading =>
      /\ \A i \in 1..Len(weeklyChartData) :
            weeklyChartData[i].net = weeklyChartData[i].intake - weeklyChartData[i].burned
      /\ totals.totalIntake = SeqSum(ChartColumn("intake"))
      /\ totals.totalBurned = SeqSum(ChartColumn("burned"))
      /\ totals.totalWorkouts = SeqSum(ChartColumn("workouts"))
      /\ totals.totalDuration = SeqSum(ChartColumn("duration"))
      /\ totals.netWeekly = totals.totalIntake - totals.totalBurned
      /\ totals.netWeekly = SeqSum(ChartColumn("net"))

\* A week with a Monday meal and workout and a Sunday workout.
C15_Witness ==
    /\ ~loading
    /\ weeklyChartData[1].intake = 700 /\ weeklyChartData[1].burned = 200
    /\ weeklyChartData[1].net = 500
    /\ weeklyChartData[7].intake = 0 /\ weeklyChartData[7].burned = 450
    /\ weeklyChartData[7].net = -450
    /\ totals.netWeekly = 50
    /\ totals.totalWorkouts = 5 /\ totals.totalDuration = 120

\* The message templates of the four insight categories.
ProgressTexts == {"Goal crushed", "Keep going", "No workout today"}
BalanceTexts == {"Calorie surplus", "Great deficit"}
ConsistencyTexts == {"Excellent week", "Good week"}
StreakTexts == {"Day streak"}

InCategory(x, texts) == x.text \in texts
InsightsOf(texts) == SelectSeq(insights, LAMBDA x : InCategory(x, texts))

CategoryOf(x) ==
    IF x.text \in ProgressTexts THEN 1
    ELSE IF x.text \in BalanceTexts THEN 2
    ELSE IF x.text \in ConsistencyTexts THEN 3
    ELSE IF x.text \in StreakTexts THEN 4
    ELSE 0

\* What the rendered page was given: today's totals, the goal in force, the
\* week's workout count and the user's streak.
ShownBurned == stats.caloriesBurned
ShownIntake == stats.caloriesConsumed
ShownGoal == IF authUser.dailyBurnGoal > 0 THEN authUser.dailyBurnGoal ELSE DefaultBurnGoal
ShownWeekWorkouts == SeqSum(ChartColumn("workouts"))

\* C16: once the page has rendered there is exactly one goal-progress
\* insight: a success when burned >= goal, an info carrying the positive
\* remainder goal - burned when 0 < burned < goal, a warning when burned = 0.
C16_ProgressInsight ==
    ~loading =>
      LET cat == InsightsOf(ProgressTexts)
      IN  /\ Len(cat) = 1
          /\ ShownBurned >= ShownGoal => cat[1].type = "success"
          /\ (0 < ShownBurned /\ ShownBurned < ShownGoal) =>
                /\ cat[1].type = "info"
                /\ cat[1].n = ShownGoal - ShownBurned
                /\ cat[1].n > 0
          /\ ShownBurned = 0 => cat[1].type = "warning"

\* 200 kcal burned against a goal of 300: an info with 100 kcal remaining.
C16_Witness ==
    /\ ~loading
    /\ ShownBurned = 200 /\ authUser.dailyBurnGoal = 300
    /\ insights[1] = [type |-> "info", text |-> "Keep going", n |-> 100]

\* C17: once the page has rendered, the calorie-balance category holds a
\* warning when intake > 0, burned > 0 and intake - burned > 500, a success
\* when intake > 0, burned > 0 and intake - burned < -300, and nothing when
\* the balance lies in [-300, 500] or intake or burned is 0.
C17_BalanceInsight ==
    ~loading =>
      LET cat == InsightsOf(BalanceTexts)
          both == ShownIntake > 0 /\ ShownBurned > 0
          balance == ShownIntake - ShownBurned
      IN  /\ (both /\ balance > 500) =>
                Len(cat) = 1 /\ cat[1].type = "warning"
          /\ (both /\ balance < -300) =>
                Len(cat) = 1 /\ cat[1].type = "success"
          /\ (both /\ balance >= -300 /\ balance <= 500) => cat = << >>
          /\ ~both => cat = << >>

\* 200 kcal eaten and 1000 kcal burned: the deficit success; the surplus of
\* exactly 500 and the deficit of exactly 300 are among the inputs.
C17_Witness ==
    /\ ~loading
    /\ ShownIntake = 200 /\ ShownBurned = 1000
    /\ Len(insights) >= 2
    /\ insights[2] = [type |-> "success", text |-> "Great deficit", n |-> 800]

\* C18: once the page has rendered, the weekly-consistency category holds
\* a success when the workout counts of the 7 buckets sum to 5 or more, an
\* info when they sum to 3 or 4, and nothing when they sum to less than 3.
C18_ConsistencyInsight ==
    ~loading =>
      LET cat == InsightsOf(ConsistencyTexts)
      IN  /\ ShownWeekWorkouts >= 5 =>
                Len(cat) = 1 /\ cat[1].type = "success" /\ cat[1].n = ShownWeekWorkouts
          /\ ShownWeekWorkouts \in {3, 4} =>
                Len(cat) = 1 /\ cat[1].type = "info" /\ cat[1].n = ShownWeekWorkouts
          /\ ShownWeekWorkouts < 3 => cat = << >>

\* A week of exactly 5 workouts, 2 on Monday and 3 on Sunday.
C18_Witness ==
    /\ ~loading
    /\ weeklyChartData[1].workouts = 2 /\ weeklyChartData[7].workouts = 3
    /\ InsightsOf(ConsistencyTexts) =
          << [type |-> "success", text |-> "Excellent week", n |-> 5] >>

\* C19: once the page has rendered, the streak category holds a success
\* exactly when the user's streak is 7 or more, and nothing for a smaller
\* streak or when there is no user.
C19_StreakInsight ==
    ~loading =>
      LET cat == InsightsOf(StreakTexts)
      IN  /\ authUser.streak >= 7 =>
                Len(cat) = 1 /\ cat[1].type = "success" /\ cat[1].n = authUser.streak
          /\ (authUser.streak < 7 \/ authUser = NoUser) => cat = << >>

\* A user with a streak of exactly 7.
C19_Witness ==
    /\ ~loading
    /\ authUser.streak = 7
    /\ insights[Len(insights)] = [type |-> "success", text |-> "Day streak", n |-> 7]

\* C20: once the page has rendered, every insight belongs to one of the
\* four categories, the categories of the list are strictly increasing (at
\* most one each, in category order), and the list is as long as the number
\* of categories whose condition is met; with burned 0, intake 0, 2 workouts
\* in the week and a streak of 3 the list is the 'no workout today' warning
\* alone.
C20_OnePerCategoryInOrder ==
    ~loading =>
      LET balance == ShownIntake - ShownBurned
          met2 == /\ ShownIntake > 0 /\ ShownBurned > 0
                  /\ (balance > 500 \/ balance < -300)
          met3 == ShownWeekWorkouts >= 3
          met4 == authUser.streak >= 7
          count(b) == IF b THEN 1 ELSE 0
      IN  /\ \A i \in 1..Len(insights) : CategoryOf(insights[i]) \in 1..4
          /\ \A i, j \in 1..Len(insights) :
                i < j => CategoryOf(insights[i]) < CategoryOf(insights[j])
          /\ Len(insights) = 1 + count(met2) + count(met3) + count(met4)
          /\ (/\ ShownBurned = 0 /\ ShownIntake = 0
              /\ ShownWeekWorkouts = 2 /\ authUser.streak = 3) =>
                insights = << [type |-> "warning", text |-> "No workout today", n |-> 0] >>

\* The scenario: nothing burned or eaten today, 2 workouts in the week, a
\* streak of 3.
C20_Witness ==
    /\ ~loading
    /\ ~stats.null
    /\ ShownBurned = 0 /\ ShownIntake = 0
    /\ totals.totalWorkouts = 2 /\ authUser.streak = 3
    /\ insights = << [type |-> "warning", text |-> "No workout today", n |-> 0] >>

\* The XP of the workout records created for user u.
CreditedXp(u) ==
    SeqSum([k \in 1..Len(workouts) |->
               IF workouts[k].user = u THEN workouts[k].xpEarned ELSE 0])

\* C21: in every reachable state, also after a submission has failed, each
\* user's cumulative XP equals the sum of xpEarned over that user's workout
\* records.
C21_XpMatchesRecords ==
    \A u \in DOMAIN users : users[u].xp = CreditedXp(u)

\* One submission has failed and been reported to the page, another has
\* created a record worth 270 XP.
C21_Witness ==
    /\ notification = "error"
    /\ Len(workouts) = 1
    /\ users["u1"].xp = 270
    /\ CreditedXp("u1") = 270

\* C22: when every submission issued has been answered with success and
\* every response has been applied, the stored XP of the user and the XP of
\* the user object the client keeps are the initial XP plus the rewards of
\* all submissions, whatever the order of handling and of arrival.
C22_BothSubmissionsReflected ==
    (/\ issued >= 2 /\ inflight = {} /\ responses = {}
     /\ Len(workouts) = issued) =>
       /\ users["u1"].xp = CreditedXp("u1")
       /\ localStorage.user.xp = users["u1"].xp

\* The request's header has two fields of which the second is a token
\* that verifies and names an existing user.
CarriesGoodToken ==
    /\ Len(reqHeader) = 2
    /\ reqHeader[2].kind = "valid"
    /\ reqHeader[2].id \in DOMAIN users

\* The middleware has answered 401 once and has not called next().
Rejected == Len(resSent) = 1 /\ resSent[1].status = 401 /\ nextCalls = 0

\* C23 as claimed: next() is called only for a header whose scheme is
\* Bearer and whose token verifies and names an existing user; every other
\* request is answered 401 without a call of next(); the middleware
\* responds at most once.
C23_NextOnlyForBearerToken ==
    /\ Len(resSent) <= 1
    /\ nextCalls > 0 =>
          /\ nextCalls = 1 /\ resSent = << >>
          /\ Len(reqHeader) >= 1 /\ reqHeader[1] = Bearer
          /\ CarriesGoodToken
    /\ (protectPc = "done" /\
        ~(Len(reqHeader) >= 1 /\ reqHeader[1] = Bearer /\ CarriesGoodToken)) =>
          Rejected

\* C23 as amended: next() is called only for a header whose first field
\* starts with 'Bearer' and whose second field is a token that verifies and
\* names a user findById returned; every other request is answered 401
\* without a call of next(); the middleware responds at most once.
C23_NextOnlyForTokenAfterBearerPrefix ==
    /\ Len(resSent) <= 1
    /\ nextCalls > 0 =>
          /\ nextCalls = 1 /\ resSent = << >>
          /\ Len(reqHeader) >= 1 /\ startsWith(reqHeader[1], Bearer)
          /\ CarriesGoodToken
          /\ reqUser = reqHeader[2].id
    /\ (protectPc = "done" /\
        ~(Len(reqHeader) >= 1 /\ startsWith(reqHeader[1], Bearer) /\ CarriesGoodToken)) =>
          Rejected

\* A request with 'Bearer' and a token of the registered user u1 has
\* reached the handler, while u2 is not registered.
C23_Witness ==
    /\ protectPc = "done"
    /\ reqHeader = << Bearer, [kind |-> "valid", id |-> "u1"] >>
    /\ reqUser = "u1"
    /\ nextCalls = 1 /\ resSent = << >>
    /\ DOMAIN users = {"u1"}

\* C25: a login step leaves the set of users, every user's xp and
\* lastWorkoutDate and the workout records as they were; a failed login
\* leaves every user document as it was; a successful login of a user with
\* no lastWorkoutDate, or whose lastWorkoutDate lies on today's calendar day
\* or the day before, leaves that user's streak as it was, and no other
\* user's document changes.
C25_LoginFrame ==
    [][\A u \in UserIds, pwOk \in BOOLEAN :
          Login(u, pwOk) =>
            /\ DOMAIN users' = DOMAIN users
            /\ workouts' = workouts
            /\ \A x \in DOMAIN users :
                  /\ users'[x].xp = users[x].xp
                  /\ users'[x].lastWorkoutDate = users[x].lastWorkoutDate
                  /\ users'[x].dailyBurnGoal = users[x].dailyBurnGoal
                  /\ x # u => users'[x] = users[x]
            /\ (u \notin DOMAIN users \/ ~pwOk) =>
                  users' = users /\ res'.status = 401
            /\ (/\ u \in DOMAIN users /\ pwOk
                /\ \/ users[u].lastWorkoutDate = NoDate
                   \/ (now \div HoursPerDay) -
                        (users[u].lastWorkoutDate \div HoursPerDay) <= 1) =>
                  users'[u].streak = users[u].streak]_vars

\* A login at noon of the day after a workout logged at midnight, 36 hours
\* earlier: the streak of 1 stands, and XP and lastWorkoutDate are as the
\* workout left them.
C25_Witness ==
    /\ res.route = "login" /\ res.status = 200 /\ res.user = "u1"
    /\ now = 36
    /\ users["u1"].lastWorkoutDate = 0
    /\ users["u1"].streak = 1 /\ res.streak = 1
    /\ users["u1"].xp = 270

\* C26: in every state no two stored users share an email or a username;
\* a request answered 201 carries a token and has stored exactly its own
\* document; a request answered otherwise carries no token and has stored
\* nothing, and this is the answer of every finished request whose email or
\* username belongs to a document of another request.
C26_UniqueUsers ==
    /\ \A j, k \in 1..Len(userCollection) :
          j # k => /\ userCollection[j].email # userCollection[k].email
                   /\ userCollection[j].username # userCollection[k].username
    /\ \A i \in 1..MaxRegistrations :
          LET own == {k \in 1..Len(userCollection) : userCollection[k].by = i}
              taken == \E k \in 1..Len(userCollection) :
                          /\ userCollection[k].by # i
                          /\ \/ userCollection[k].email = regReqs[i].email
                             \/ userCollection[k].username = regReqs[i].username
          IN  /\ (regReqs[i].pc = "done" /\ regReqs[i].status = 201) =>
                    regReqs[i].token /\ Cardinality(own) = 1
              /\ ~(regReqs[i].pc = "done" /\ regReqs[i].status = 201) =>
                    ~regReqs[i].token /\ own = {}
              /\ (regReqs[i].pc = "done" /\ taken) =>
                    regReqs[i].status \in {400, 500} /\ ~regReqs[i].token

\* Two requests with the same email both passed findOne; one was answered
\* 201, the other was rejected by the index and answered 500.
C26_Witness ==
    /\ regReqs[1].pc = "done" /\ regReqs[1].status = 201
    /\ regReqs[2].pc = "done" /\ regReqs[2].status = 500
    /\ regReqs[1].email = regReqs[2].email
    /\ regReqs[1].username # regReqs[2].username
    /\ Len(userCollection) = 1

\* C27: within one process a connection is opened at most once, also when
\* invocations arrive before the first connect has resolved; once
\* isConnected is true no step calls mongoose.connect; a connect that fails
\* leaves isConnected as it was and rejects its invocation, which never
\* reaches the Express app.
C27_ConnectsAtMostOnce ==
    [][/\ opened' <= 1
       /\ isConnected => connectCalls' = connectCalls
       /\ \A i \in 1..MaxInvocations :
             /\ (invocations[i] = "connecting" /\ invocations'[i] = "rejected") =>
                   isConnected' = isConnected
             /\ invocations[i] = "rejected" => invocations'[i] = "rejected"]_vars

\* C24: whenever a response passes the interceptor, a status of 401 leaves
\* localStorage without token and user and the browser at /login (by a
\* redirect exactly when it was elsewhere), any other status leaves
\* localStorage and the location as they were, and every error status is
\* rejected to the caller.
C24_TeardownOn401 ==
    [][(call.phase = "response" /\ call'.phase = "intercepted") =>
          /\ call.status = 401 =>
                /\ localStorage'.token = NoToken /\ localStorage'.user = NoUser
                /\ location' = "/login"
                /\ call'.redirect = (location # "/login")
                /\ call'.rejected
          /\ call.status # 401 =>
                localStorage' = localStorage /\ location' = location
          /\ call.status \notin {200, 201} => call'.rejected]_vars

\* A call of a logged-in user at /dashboard was answered 401: the session
\* is gone from localStorage, the browser is redirected and the error is on
\* its way to the caller.
C24_Witness ==
    /\ call.phase = "intercepted" /\ call.api = "other" /\ call.status = 401
    /\ call.redirect /\ call.rejected
    /\ authUser # NoUser
    /\ localStorage = [token |-> NoToken, user |-> NoUser]
    /\ location = "/login"

\* C29: whenever user state is non-null, and no response is between the
\* interceptor and its caller, localStorage holds a token; a logout leaves
\* localStorage without token and user and user state null; while a failed
\* login or register is handled, user state and localStorage stay as they
\* were.
C29_AuthStateInvariant ==
    [][/\ (authUser' # NoUser /\ call'.phase # "intercepted") =>
             localStorage'.token # NoToken
       /\ logout =>
             /\ localStorage' = [token |-> NoToken, user |-> NoUser]
             /\ authUser' = NoUser
       /\ (call.api \in {"login", "register"} /\ call.status \notin {200, 201}) =>
             authUser' = authUser /\ localStorage' = localStorage]_vars

\* The totals the Nutrition page displays (summary?.total... || 0) and the
\* sums over the meals it lists.
displayedTotals(s) ==
    [calories |-> totalOf(s, "totalCalories"), protein |-> totalOf(s, "totalProtein"),
     carbs |-> totalOf(s, "totalCarbs"), fats |-> totalOf(s, "totalFats"),
     fiber |-> totalOf(s, "totalFiber")]
listedTotals(list) ==
    [calories |-> mealSum(list, "calories"), protein |-> mealSum(list, "protein"),
     carbs |-> mealSum(list, "carbs"), fats |-> mealSum(list, "fats"),
     fiber |-> mealSum(list, "fiber")]

searchesInFlight == {c \in mealCalls : c.kind = "search"}

====
